---------------------------- MODULE Spec2Model ----------------------------
(***************************************************************************)
(* The pre-commit reservation guard (.beads/hooks/hooks.d/pre-commit/       *)
(* 50-agent-mail.py) as a state machine.  One behaviour is one invocation   *)
(* of the hook: the environment, the git staging output, the reservation    *)
(* store and the clock are chosen in the initial state, and each action is  *)
(* one step of the script.                                                  *)
(*                                                                          *)
(* Text is modelled as a tuple of one-character strings, so that strip(),   *)
(* lower(), startswith(), replace(), split() and the glob and timestamp     *)
(* parsers are computed character by character as Python computes them.     *)
(***************************************************************************)
EXTENDS Integers, Sequences, FiniteSets, TLC

VARIABLES
    env,                  \* os.environ: the five variables the hook reads
    git,                  \* what the two `git diff --cached` commands return
    store,                \* FILE_RESERVATIONS_DIR: listable or not, and its files
    psAvailable,          \* whether `from pathspec import PathSpec` succeeded (_PS)
    now,                  \* the wall clock, seconds since 1970-01-01T00:00:00Z
    pc,                   \* position in the script
    GATE,                 \* line 21
    ADVISORY,             \* line 29
    AGENT_NAME,           \* line 35: [set, s]; not set is Python's None
    paths,                \* line 41
    fileIdx,              \* loader: number of directory entries already visited
    recs,                 \* loader: `recs` of line 115 for the current document
    recIdx,               \* loader: number of entries of `recs` already visited
    examined,             \* history: every entry the loop body was run on, with the clock
    seen_ids,             \* line 106
    compiled_patterns,    \* line 104
    all_pattern_strings,  \* line 105
    origins,              \* history: for each tuple of compiled_patterns, the <<file, entry>> it came from
    union_spec,           \* line 150: [built, lines]
    conflicts,            \* line 158
    stderr,               \* the lines written to sys.stderr, in order
    exit_status,          \* the argument of sys.exit, -1 while running
    stagingRead,          \* history: a git command has been run
    storeRead,            \* history: FILE_RESERVATIONS_DIR has been listed
    prev,                 \* history: the outcome of the previous invocation, if any
    storeSeen,            \* history: every content the store had since the invocation began
    marker,               \* auto-setup: the file MARKER_PATH, [exists, mtime]
    spc,                  \* auto-setup: position in main()
    installed,            \* auto-setup: line 41
    missing,              \* auto-setup: line 40
    steps,                \* history: the install and migration commands this run has run
    freshAtCheck,         \* history: what marker_is_fresh() returned to this run (line 34)
    markerAtStart,        \* history: the marker file when this run began
    registry,             \* init: the file ~/.claude/atlas/registry.yaml, [exists, content]
    added,                \* history: the <<directory, slug>> of every entry init_atlas appended
    prevInstall           \* history: start time of the last earlier run that performed an install step, or -1

vars == <<env, git, store, psAvailable, now, pc, GATE, ADVISORY, AGENT_NAME, paths,
          fileIdx, recs, recIdx, examined, seen_ids, compiled_patterns, all_pattern_strings,
          origins, union_spec, conflicts, stderr, exit_status, stagingRead, storeRead, prev,
          storeSeen, marker, spc, installed, missing, steps, freshAtCheck, markerAtStart,
          registry, added, prevInstall>>

-----------------------------------------------------------------------------
(* Python str operations, on tuples of characters *)

Whitespace == {" ", "\t", "\n"}

UpperCase == <<"A","B","C","D","E","F","G","H","I","J","K","L","M",
               "N","O","P","Q","R","S","T","U","V","W","X","Y","Z">>
LowerCase == <<"a","b","c","d","e","f","g","h","i","j","k","l","m",
               "n","o","p","q","r","s","t","u","v","w","x","y","z">>

\* str.lower() of one character
LowerChar(c) ==
    IF \E i \in DOMAIN UpperCase : UpperCase[i] = c
    THEN LowerCase[CHOOSE i \in DOMAIN UpperCase : UpperCase[i] = c]
    ELSE c

\* str.lower()
Lower(s) == [i \in DOMAIN s |-> LowerChar(s[i])]

\* s[i:] (0-based i, as in Python)
From(s, i) == SubSeq(s, i + 1, Len(s))

\* str.lstrip(): leading whitespace removed
RECURSIVE LStrip(_)
LStrip(s) == IF s # <<>> /\ Head(s) \in Whitespace THEN LStrip(Tail(s)) ELSE s

\* str.rstrip(): trailing whitespace removed
RECURSIVE RStrip(_)
RStrip(s) ==
    IF s # <<>> /\ s[Len(s)] \in Whitespace THEN RStrip(SubSeq(s, 1, Len(s) - 1)) ELSE s

\* str.strip()
Strip(s) == RStrip(LStrip(s))

\* str.lstrip(c) for a single character c
RECURSIVE LStripChar(_, _)
LStripChar(s, c) == IF s # <<>> /\ Head(s) = c THEN LStripChar(Tail(s), c) ELSE s

\* str.startswith(p)
StartsWith(s, p) == Len(s) >= Len(p) /\ SubSeq(s, 1, Len(p)) = p

\* str.endswith(p)
EndsWith(s, p) == Len(s) >= Len(p) /\ SubSeq(s, Len(s) - Len(p) + 1, Len(s)) = p

\* str.replace(a, b) for single characters a and b
ReplaceChar(s, a, b) == [i \in DOMAIN s |-> IF s[i] = a THEN b ELSE s[i]]

\* str.split(sep) for a single character sep: Len >= 1, pieces may be empty
RECURSIVE SplitFrom(_, _, _)
SplitFrom(s, sep, piece) ==
    IF \A i \in DOMAIN s : s[i] # sep THEN <<piece \o s>>
    ELSE LET at == CHOOSE i \in DOMAIN s : s[i] = sep /\ \A j \in 1..(i - 1) : s[j] # sep
         IN  <<piece \o SubSeq(s, 1, at - 1)>> \o SplitFrom(From(s, at), sep, <<>>)

Split(s, sep) == SplitFrom(s, sep, <<>>)

\* [x for x in xs if x]
RECURSIVE NonEmpty(_)
NonEmpty(xs) ==
    IF xs = <<>> THEN <<>>
    ELSE IF Head(xs) # <<>> THEN <<Head(xs)>> \o NonEmpty(Tail(xs))
    ELSE NonEmpty(Tail(xs))

\* Python's `a or b` on two str values
PyOr(a, b) == IF a # <<>> THEN a ELSE b

\* the elements of a tuple, as a set
Range(xs) == {xs[i] : i \in DOMAIN xs}

-----------------------------------------------------------------------------
(* The environment: gate, mode, bypass, agent identity (lines 20-38) *)

\* an environment variable: not set, or set to a text
Unset == [set |-> FALSE, s |-> <<>>]
Text(s) == [set |-> TRUE, s |-> s]

\* os.environ.get(name, default)
EnvGet(v, default) == IF v.set THEN v.s ELSE default

\* the words of the two membership tests of lines 24 and 32
TruthyWords == {<<"1">>, <<"t","r","u","e">>, <<"t">>, <<"y","e","s">>, <<"y">>}

\* x.strip().lower() in {"1","true","t","yes","y"}
Truthy(s) == Lower(Strip(s)) \in TruthyWords

\* line 21, evaluated as Python evaluates `a or b or "0"`: the second
\* variable is read only when the first expression is the empty text
GateValue(e) ==
    PyOr(PyOr(EnvGet(e.WORKTREES_ENABLED, <<"0">>), EnvGet(e.GIT_IDENTITY_ENABLED, <<"0">>)), <<"0">>)

\* line 24, negated: the hook goes on past the gate
GateAlwaysOpen(gate) == TRUE

GateOpenIfSet(gate) == Strip(gate) # <<>>

GateOpen(gate) == Truthy(gate)

\* lines 28-29
AdvisoryWords == {<<"w","a","r","n">>, <<"a","d","v","i","s","o","r","y">>, <<"a","d","v">>}

ModeIsAdvisory(e) ==
    Lower(Strip(PyOr(EnvGet(e.AGENT_MAIL_GUARD_MODE, <<"b","l","o","c","k">>), <<"b","l","o","c","k">>))) \in AdvisoryWords

\* line 32
BypassNever(e) == FALSE

BypassActive(e) == Truthy(PyOr(EnvGet(e.AGENT_MAIL_BYPASS, <<"0">>), <<"0">>))

\* line 36: `not AGENT_NAME` (None or the empty text)
AgentMissingNoneOnly(a) == ~a.set

AgentMissing(a) == ~a.set \/ a.s = <<>>

\* a line of sys.stderr: a fixed text, or the format of line 173 with its
\* three arguments
Line(text, path, patt, holder) ==
    [text |-> text, path |-> path, patt |-> patt, holder |-> holder]

BypassNotice ==
    Line("[pre-commit] bypass enabled via AGENT_MAIL_BYPASS=1\n", <<>>, <<>>, <<>>)

MissingAgentError ==
    Line("[pre-commit] AGENT_NAME environment variable is required.\n", <<>>, <<>>, <<>>)

ConflictHeader ==
    Line("Exclusive file_reservation conflicts detected\n", <<>>, <<>>, <<>>)

ConflictLine(c) ==
    Line("- {path} matches {patt} (holder: {holder})\n", c.path, c.patt, c.holder)

-----------------------------------------------------------------------------
(* The staged paths (lines 40-71) *)

\* the "\x00" that `git diff -z` puts after every field
NUL == "NUL"

\* stdout of a `git diff -z` command listing these fields
RECURSIVE ZJoin(_)
ZJoin(fields) ==
    IF fields = <<>> THEN <<>> ELSE Head(fields) \o <<NUL>> \o ZJoin(Tail(fields))

\* a byte of the output that is part of no UTF-8 sequence
InvalidByte == "<c2>"

\* lines 45, 52: stdout.decode("utf-8", "ignore") leaves out what does not
\* decode
Decode(bytes) == SelectSeq(bytes, LAMBDA c : c # InvalidByte)

\* lines 46-48: the non-empty pieces of the name-only output
NameOnlyPaths(data) == NonEmpty(Split(data, NUL))

\* lines 54-66: the loop over the name-status tokens, from token list `parts`
\* (the tokens from index i on); an R status takes two paths when two more
\* tokens follow it, any other status takes one
RECURSIVE StatusPaths(_)
StatusPaths(parts) ==
    IF parts = <<>> THEN <<>>
    ELSE IF StartsWith(Head(parts), <<"R">>) /\ Len(parts) >= 3
         THEN <<parts[2], parts[3]>> \o StatusPaths(From(parts, 3))
    ELSE IF Len(parts) >= 2
         THEN <<parts[2]>> \o StatusPaths(From(parts, 2))
    ELSE <<>>

\* lines 41-68: `paths` after the try block.  A failing command raises
\* (check=True) and the except clause keeps what was appended before it.
CollectPaths(g) ==
    IF g.fail = "name-only" THEN <<>>
    ELSE IF g.fail = "name-status" THEN NameOnlyPaths(Decode(g.nameOnly))
    ELSE NameOnlyPaths(Decode(g.nameOnly))
            \o StatusPaths(NonEmpty(Split(Decode(g.nameStatus), NUL)))

-----------------------------------------------------------------------------
(* The reservation store: JSON values, records, documents *)

\* a JSON value of a record field, or the field's absence
Absent   == [k |-> "absent", s |-> <<>>, n |-> 0, b |-> FALSE]
Null     == [k |-> "null",   s |-> <<>>, n |-> 0, b |-> FALSE]
Str(s)   == [k |-> "str",    s |-> s,    n |-> 0, b |-> FALSE]
Num(n)   == [k |-> "num",    s |-> <<>>, n |-> n, b |-> FALSE]
Bool(b)  == [k |-> "bool",   s |-> <<>>, n |-> 0, b |-> b]

\* Python truth of r.get(key): None (absent or null), "", 0 and False are false
PyTruthy(v) ==
    CASE v.k = "str"  -> v.s # <<>>
      [] v.k = "num"  -> v.n # 0
      [] v.k = "bool" -> v.b
      [] OTHER        -> FALSE

\* (r.get(key) or '').strip() raises AttributeError: a true value that is no str
StripRaises(v) == PyTruthy(v) /\ v.k # "str"

\* (r.get(key) or '').strip(), when it does not raise
Stripped(v) == IF PyTruthy(v) /\ v.k = "str" THEN Strip(v.s) ELSE <<>>

\* str(n) for an integer n
Digits == <<"0","1","2","3","4","5","6","7","8","9">>

RECURSIVE NatText(_)
NatText(n) == IF n < 10 THEN <<Digits[n + 1]>> ELSE Append(NatText(n \div 10), Digits[(n % 10) + 1])

IntText(n) == IF n < 0 THEN <<"-">> \o NatText(-n) ELSE NatText(n)

\* str(rid), for rid not None
PyStr(v) ==
    CASE v.k = "str"  -> v.s
      [] v.k = "num"  -> IntText(v.n)
      [] v.k = "bool" -> IF v.b THEN <<"T","r","u","e">> ELSE <<"F","a","l","s","e">>

\* r.get('id') is None
IdIsNone(v) == v.k \in {"absent", "null"}

\* r.get('exclusive', True), as the truth value line 134 tests
ExclusiveIgnored(v) == TRUE

ExclusiveOnlyIfGiven(v) == PyTruthy(v)

ExclusiveOf(v) == IF v.k = "absent" THEN TRUE ELSE PyTruthy(v)

\* an entry of a document: a JSON object with the five fields, or something
\* that is no object (isinstance(r, dict) is False)
Rec(id, patt, agent, excl, exp) ==
    [mapping |-> TRUE, id |-> id, path_pattern |-> patt, agent |-> agent,
     exclusive |-> excl, expires_ts |-> exp]

NotAMapping == [mapping |-> FALSE, id |-> Absent, path_pattern |-> Absent,
                agent |-> Absent, exclusive |-> Absent, expires_ts |-> Absent]

\* a directory entry: its name, whether read_text + json.loads succeed, and the
\* parsed data as the list `recs` of line 115 (a list document's entries, or
\* the one-element list around any other value)
Doc(name, items) == [name |-> name, parses |-> TRUE, items |-> items]
CorruptDoc(name) == [name |-> name, parses |-> FALSE, items |-> <<>>]

-----------------------------------------------------------------------------
(* Expiry (lines 74-93) *)

IsDigit(c) == \E i \in DOMAIN Digits : Digits[i] = c
DigitValue(c) == (CHOOSE i \in DOMAIN Digits : Digits[i] = c) - 1

AllDigits(s) == \A i \in DOMAIN s : IsDigit(s[i])

RECURSIVE Number(_)
Number(s) == IF s = <<>> THEN 0 ELSE 10 * Number(SubSeq(s, 1, Len(s) - 1)) + DigitValue(s[Len(s)])

IsLeap(y) == y % 4 = 0 /\ (y % 100 # 0 \/ y % 400 = 0)

DaysInMonth(y, m) ==
    IF m = 2 THEN (IF IsLeap(y) THEN 29 ELSE 28)
    ELSE IF m \in {4, 6, 9, 11} THEN 30 ELSE 31

RECURSIVE DaysBeforeMonth(_, _)
DaysBeforeMonth(y, m) == IF m = 1 THEN 0 ELSE DaysBeforeMonth(y, m - 1) + DaysInMonth(y, m - 1)

DaysBeforeYear(y) == (y - 1) * 365 + (y - 1) \div 4 - (y - 1) \div 100 + (y - 1) \div 400

\* days from 1970-01-01 to y-m-d (date.toordinal() minus that of 1970-01-01)
EpochDay(y, m, d) == DaysBeforeYear(y) + DaysBeforeMonth(y, m) + d - 719163

NoTime == [ok |-> FALSE, t |-> 0]
Time(t) == [ok |-> TRUE, t |-> t]

\* the date part "YYYY-MM-DD": the epoch day, or not ok
ParseDate(s) ==
    IF /\ Len(s) = 10
       /\ s[5] = "-" /\ s[8] = "-"
       /\ AllDigits(SubSeq(s, 1, 4)) /\ AllDigits(SubSeq(s, 6, 7)) /\ AllDigits(SubSeq(s, 9, 10))
    THEN LET y == Number(SubSeq(s, 1, 4))
             m == Number(SubSeq(s, 6, 7))
             d == Number(SubSeq(s, 9, 10))
         IN  IF y >= 1 /\ m \in 1..12 /\ d >= 1 /\ d <= DaysInMonth(y, m)
             THEN Time(EpochDay(y, m, d)) ELSE NoTime
    ELSE NoTime

\* the time part "HH:MM" or "HH:MM:SS": seconds after midnight, or not ok
ParseClock(s) ==
    IF /\ Len(s) \in {5, 8}
       /\ s[3] = ":" /\ AllDigits(SubSeq(s, 1, 2)) /\ AllDigits(SubSeq(s, 4, 5))
       /\ (Len(s) = 8 => s[6] = ":" /\ AllDigits(SubSeq(s, 7, 8)))
    THEN LET h  == Number(SubSeq(s, 1, 2))
             mi == Number(SubSeq(s, 4, 5))
             se == IF Len(s) = 8 THEN Number(SubSeq(s, 7, 8)) ELSE 0
         IN  IF h <= 23 /\ mi <= 59 /\ se <= 59
             THEN Time(h * 3600 + mi * 60 + se) ELSE NoTime
    ELSE NoTime

\* the offset "+HH:MM" or "-HH:MM": seconds east of UTC, or not ok
ParseOffset(s) ==
    IF Len(s) = 6 /\ s[1] \in {"+", "-"} /\ ParseClock(From(s, 1)).ok
    THEN Time((IF s[1] = "-" THEN -1 ELSE 1) * ParseClock(From(s, 1)).t)
    ELSE NoTime

\* where the UTC offset of a time part starts (0-based), or its length
OffsetAt(s) ==
    IF \E i \in DOMAIN s : s[i] \in {"+", "-"}
    THEN (CHOOSE i \in DOMAIN s : s[i] \in {"+", "-"} /\ \A j \in 1..(i - 1) : s[j] \notin {"+", "-"}) - 1
    ELSE Len(s)

\* the time part "HH:MM[:SS]" with an optional offset: seconds after
\* midnight UTC of the day it is read on, or not ok
TimeOfDay(rest) ==
    LET cut == OffsetAt(rest)
        clk == ParseClock(SubSeq(rest, 1, cut))
        off == IF cut = Len(rest) THEN Time(0) ELSE ParseOffset(From(rest, cut))
    IN  IF clk.ok /\ off.ok THEN Time(clk.t - off.t) ELSE NoTime

\* datetime.fromisoformat(text), made aware (a naive value is taken as UTC)
\* and converted to UTC (lines 83-86), for the formats every Python 3 release
\* with fromisoformat reads alike:
\*     YYYY-MM-DD
\*     YYYY-MM-DD<any one character>HH:MM[:SS][+HH:MM | -HH:MM]
\* Anything else raises ValueError, among it the ISO 8601 ordinal date
\* YYYY-DDD, which the library documents as not supported.
FromIsoFormat(text) ==
    IF Len(text) < 10 THEN NoTime
    ELSE LET day == ParseDate(SubSeq(text, 1, 10)) IN
         IF ~day.ok THEN NoTime
         ELSE IF Len(text) = 10 THEN Time(day.t * 86400)
         ELSE IF Len(text) = 11 THEN NoTime
         ELSE LET tod == TimeOfDay(From(text, 11)) IN
              IF tod.ok THEN Time(day.t * 86400 + tod.t) ELSE NoTime

\* lines 76-88: None (not ok) or the instant, in seconds since the epoch
_parse_iso(value) ==
    IF value = <<>> THEN NoTime
    ELSE IF EndsWith(value, <<"Z">>)
         THEN FromIsoFormat(SubSeq(value, 1, Len(value) - 1) \o <<"+","0","0",":","0","0">>)
    ELSE FromIsoFormat(value)

\* lines 89-93, with _now_utc() read from the clock
_not_expired(expires_ts, clock) ==
    LET parsed == _parse_iso(expires_ts) IN
    IF ~parsed.ok THEN TRUE ELSE parsed.t > clock

-----------------------------------------------------------------------------
(* Pattern matching (lines 94-101, 142, 149-169)                             *)
(*                                                                           *)
(* PathSpec.from_lines("gitignore", lines) and PathSpec.match_file follow    *)
(* the pathspec library's GitWildMatchPattern: a pattern is split into       *)
(* segments at "/", normalised, and turned into an anchored regular          *)
(* expression; a file matches the spec when the last pattern whose           *)
(* expression matches it is not a "!" pattern.  The model covers patterns    *)
(* made of literal characters, "*", "?", "**", "/", and a leading "!" or     *)
(* "#", and file paths without empty segments.                               *)

\* a glob over characters: "*" is any run, "?" any one character.  This is
\* fnmatch.fnmatch(s, p) on POSIX, and the translation of one gitignore
\* segment (where neither p nor s holds a "/")
RECURSIVE Glob(_, _)
Glob(p, s) ==
    IF p = <<>> THEN s = <<>>
    ELSE IF Head(p) = "*" THEN \E k \in 0..Len(s) : Glob(Tail(p), From(s, k))
    ELSE IF s = <<>> THEN FALSE
    ELSE IF Head(p) = "?" THEN Glob(Tail(p), Tail(s))
    ELSE Head(p) = Head(s) /\ Glob(Tail(p), Tail(s))

\* fnmatch.fnmatch(name, pat)
FnMatch(name, pat) == Glob(pat, name)

\* adjacent "**" segments collapse into one
RECURSIVE DedupStars(_)
DedupStars(segs) ==
    IF Len(segs) < 2 THEN segs
    ELSE IF segs[1] = <<"*","*">> /\ segs[2] = <<"*","*">> THEN DedupStars(Tail(segs))
    ELSE <<Head(segs)>> \o DedupStars(Tail(segs))

\* the segments of a pattern after normalisation: a leading "/" anchors at the
\* root, a pattern of one segment ("x" or "x/") matches at any depth, a
\* trailing "/" stands for everything below
NormalSegs(p) ==
    LET s0 == DedupStars(Split(p, "/"))
        s1 == IF s0[1] = <<>> THEN Tail(s0)
              ELSE IF (Len(s0) = 1 \/ (Len(s0) = 2 /\ s0[2] = <<>>)) /\ s0[1] # <<"*","*">>
                   THEN <<<<"*","*">>>> \o s0
              ELSE s0
    IN  IF Len(s1) > 1 /\ s1[Len(s1)] = <<>>
        THEN [s1 EXCEPT ![Len(s1)] = <<"*","*">>] ELSE s1

\* GitWildMatchPattern(line): `null` for a comment, a blank line and "/"
\* (no regular expression), `include` false for a "!" pattern, `anyDir` for
\* the pattern "**/"
CompileLine(line) ==
    LET p0 == Strip(line)
        neg == StartsWith(p0, <<"!">>)
        p  == IF neg THEN Tail(p0) ELSE p0
    IN  IF p0 = <<>> \/ StartsWith(p0, <<"#">>) \/ p0 = <<"/">>
        THEN [null |-> TRUE, include |-> FALSE, anyDir |-> FALSE, segs |-> <<>>]
        ELSE [null |-> FALSE, include |-> ~neg,
              anyDir |-> DedupStars(Split(p, "/")) = <<<<"*","*">>, <<>>>>,
              segs |-> NormalSegs(p)]

\* the regular expression of normalised segments P against the segments F of
\* a file: "**" first or in the middle is zero or more segments, "**" last is
\* one or more, any other last segment may be followed by anything below it
RECURSIVE SegsMatch(_, _)
SegsMatch(P, F) ==
    IF P = <<>> THEN TRUE
    ELSE IF Head(P) = <<"*","*">>
         THEN IF Len(P) = 1 THEN F # <<>>
              ELSE \E k \in 0..Len(F) : SegsMatch(Tail(P), From(F, k))
    ELSE F # <<>> /\ Head(F) # <<>> /\ Glob(Head(P), Head(F)) /\ SegsMatch(Tail(P), Tail(F))

\* pattern.regex.match(file)
LineMatches(c, file) ==
    /\ ~c.null
    /\ IF c.anyDir THEN \E i \in 2..Len(file) : file[i] = "/"
       ELSE c.segs # <<>> /\ SegsMatch(c.segs, Split(file, "/"))

\* pathspec.util.normalize_file: a leading "/" or "./" is dropped
NormalizeFile(file) ==
    IF StartsWith(file, <<"/">>) THEN Tail(file)
    ELSE IF StartsWith(file, <<".","/">>) THEN From(file, 2)
    ELSE file

\* PathSpec.match_file: the last matching line decides
RECURSIVE LastVerdict(_, _)
LastVerdict(lines, file) ==
    IF lines = <<>> THEN FALSE
    ELSE LET c == CompileLine(lines[Len(lines)]) IN
         IF LineMatches(c, file) THEN c.include
         ELSE LastVerdict(SubSeq(lines, 1, Len(lines) - 1), file)

MatchFile(lines, file) == LastVerdict(lines, NormalizeFile(file))

\* a PathSpec object, or None
NoSpec == [built |-> FALSE, lines |-> <<>>]
PathSpec(lines) == [built |-> TRUE, lines |-> lines]

\* lines 94-101
_compile_one(patt, ps) ==
    IF ps THEN PathSpec(<<ReplaceChar(patt, "\\", "/")>>) ELSE NoSpec

\* line 142 (and line 161 for a path)
Normalized(text) == LStripChar(ReplaceChar(text, "\\", "/"), "/")

\* lines 150-155
BuildUnion(ps, strings) == IF ps /\ strings # <<>> THEN PathSpec(strings) ELSE NoSpec

\* line 167
Matched(entry, norm) ==
    IF entry.spec.built THEN MatchFile(entry.spec.lines, norm)
    ELSE FnMatch(norm, entry.patt_norm)

\* lines 166-169 for one path: a conflict for every compiled pattern that
\* matches, in the order of compiled_patterns
RECURSIVE PathConflicts(_, _, _)
PathConflictsFirstOnly(p, norm, compiled) ==
    IF compiled = <<>> THEN <<>>
    ELSE IF Matched(Head(compiled), norm)
         THEN <<[patt |-> Head(compiled).patt, path |-> p, holder |-> Head(compiled).holder]>>
         ELSE PathConflicts(p, norm, Tail(compiled))

PathConflictsUntested(p, norm, compiled) ==
    [k \in DOMAIN compiled |->
        [patt |-> compiled[k].patt, path |-> p, holder |-> compiled[k].holder]]

PathConflicts(p, norm, compiled) ==
    IF compiled = <<>> THEN <<>>
    ELSE (IF Matched(Head(compiled), norm)
          THEN <<[patt |-> Head(compiled).patt, path |-> p, holder |-> Head(compiled).holder]>>
          ELSE <<>>)
         \o PathConflicts(p, norm, Tail(compiled))

\* lines 158-169
RECURSIVE FindConflicts(_, _, _)
FindConflicts(ps, compiled, union) ==
    IF compiled = <<>> \/ ps = <<>> THEN <<>>
    ELSE LET p    == Head(ps)
             norm == Normalized(p)
         IN  (IF union.built /\ ~MatchFile(union.lines, norm) THEN <<>>
              ELSE PathConflicts(p, norm, compiled))
             \o FindConflicts(Tail(ps), compiled, union)

\* lines 170-177: what is written, and the exit status
FirstEleven(xs) == SubSeq(xs, 1, IF Len(xs) < 11 THEN Len(xs) ELSE 11)

FirstTen(xs) == SubSeq(xs, 1, IF Len(xs) < 10 THEN Len(xs) ELSE 10)

Report(cs) ==
    IF cs = <<>> THEN <<>>
    ELSE <<ConflictHeader>> \o [i \in DOMAIN FirstTen(cs) |-> ConflictLine(cs[i])]

DecisionAlwaysBlocks(cs, advisory) == IF cs # <<>> THEN 1 ELSE 0

Decision(cs, advisory) == IF cs # <<>> /\ ~advisory THEN 1 ELSE 0

-----------------------------------------------------------------------------
(* The reservation loader (lines 103-147) *)

VirtualPrefixes == {<<"t","o","o","l",":","/","/">>, <<"r","e","s","o","u","r","c","e",":","/","/">>, <<"s","e","r","v","i","c","e",":","/","/">>}

\* line 129
IsVirtualNever(patt) == FALSE

IsVirtual(patt) == \E pfx \in VirtualPrefixes : StartsWith(patt, pfx)

\* line 136: the record is the current agent's own
OwnHolder(holder, agent) == holder # <<>> /\ holder = agent

\* lines 119-124: the key under which the record's id is remembered, if any
HasId(r) == ~IdIsNone(r.id)
IdKey(r) == PyStr(r.id)

\* lines 117-139 for one entry r of a document: what the loop body does with
\* it, given the ids seen so far, AGENT_NAME and the clock
\*   "not-mapping" line 118      "duplicate" line 123     "raise"  lines 125, 131, 133
\*   "empty"       line 127      "virtual"   line 130     "shared" line 135
\*   "own"         line 137      "expired"   line 139     "keep"   lines 141-144
Verdict(r, seen, agent, clock) ==
    IF ~r.mapping THEN "not-mapping"
    ELSE IF HasId(r) /\ IdKey(r) \in seen THEN "duplicate"
    ELSE IF StripRaises(r.path_pattern) THEN "raise"
    ELSE LET patt == Stripped(r.path_pattern) IN
         IF patt = <<>> THEN "empty"
         ELSE IF IsVirtual(patt) THEN "virtual"
         ELSE IF StripRaises(r.agent) \/ StripRaises(r.expires_ts) THEN "raise"
         ELSE IF ~ExclusiveOf(r.exclusive) THEN "shared"
         ELSE IF OwnHolder(Stripped(r.agent), agent) THEN "own"
         ELSE IF ~_not_expired(Stripped(r.expires_ts), clock) THEN "expired"
         ELSE "keep"

SeenAfterForgets(r, seen) == seen

\* lines 119-124: seen_ids after the entry
SeenAfter(r, seen) ==
    IF r.mapping /\ HasId(r) THEN seen \cup {IdKey(r)} ELSE seen

\* lines 141-143: the tuple appended to compiled_patterns
Compiled(r, ps) ==
    LET patt == Stripped(r.path_pattern) IN
    [spec |-> _compile_one(patt, ps), patt |-> patt,
     patt_norm |-> Normalized(patt), holder |-> Stripped(r.agent)]

\* line 109
IsJsonName(name) == EndsWith(name, <<".","j","s","o","n">>)

-----------------------------------------------------------------------------
(* The steps of the script *)

NoPrev == [ran |-> FALSE, env |-> [WORKTREES_ENABLED |-> Unset, GIT_IDENTITY_ENABLED |-> Unset,
                                   AGENT_MAIL_GUARD_MODE |-> Unset, AGENT_MAIL_BYPASS |-> Unset,
                                   AGENT_NAME |-> Unset],
           GATE |-> <<>>, exit_status |-> -1, stderr |-> <<>>, conflicts |-> <<>>,
           clocks |-> <<>>, store |-> [listable |-> FALSE, files |-> <<>>]]

\* nothing has been written to the store since the invocation began, and
\* the other programs of the toolkit have not run
Quiet ==
    /\ storeSeen = {store}
    /\ marker = [exists |-> FALSE, mtime |-> 0]
    /\ spc = "start"
    /\ installed = <<>>
    /\ missing = <<>>
    /\ steps = <<>>
    /\ freshAtCheck = FALSE
    /\ markerAtStart = marker
    /\ registry = [exists |-> FALSE, content |-> <<>>]
    /\ added = <<>>
    /\ prevInstall = -1

\* the script's variables before its first line
Fresh ==
    /\ pc = "gate"
    /\ GATE = <<>>
    /\ ADVISORY = FALSE
    /\ AGENT_NAME = Unset
    /\ paths = <<>>
    /\ fileIdx = 0
    /\ recs = <<>>
    /\ recIdx = 0
    /\ examined = <<>>
    /\ seen_ids = {}
    /\ compiled_patterns = <<>>
    /\ all_pattern_strings = <<>>
    /\ origins = <<>>
    /\ union_spec = NoSpec
    /\ conflicts = <<>>
    /\ stderr = <<>>
    /\ exit_status = -1
    /\ stagingRead = FALSE
    /\ storeRead = FALSE

\* what the other programs of the toolkit keep
apart == <<marker, spc, installed, missing, steps, freshAtCheck, markerAtStart, registry, added,
          prevInstall>>

inputs == <<env, git, store, psAvailable, prev, storeSeen, apart>>
loaderVars == <<fileIdx, recs, recIdx, examined, seen_ids, compiled_patterns,
                all_pattern_strings, origins>>

\* sys.exit(code)
Exit(code) == pc' = "done" /\ exit_status' = code

\* lines 21-25
CheckGate ==
    /\ pc = "gate"
    /\ GATE' = GateValue(env)
    /\ IF GateOpen(GATE') THEN pc' = "mode" /\ exit_status' = exit_status ELSE Exit(0)
    /\ UNCHANGED <<inputs, now, ADVISORY, AGENT_NAME, paths, loaderVars, union_spec,
                   conflicts, stderr, stagingRead, storeRead>>

\* lines 28-29
ReadMode ==
    /\ pc = "mode"
    /\ ADVISORY' = ModeIsAdvisory(env)
    /\ pc' = "bypass"
    /\ UNCHANGED <<inputs, now, GATE, AGENT_NAME, paths, loaderVars, union_spec,
                   conflicts, stderr, exit_status, stagingRead, storeRead>>

\* lines 32-34
CheckBypass ==
    /\ pc = "bypass"
    /\ IF BypassActive(env)
       THEN stderr' = Append(stderr, BypassNotice) /\ Exit(0)
       ELSE stderr' = stderr /\ pc' = "agent" /\ exit_status' = exit_status
    /\ UNCHANGED <<inputs, now, GATE, ADVISORY, AGENT_NAME, paths, loaderVars, union_spec,
                   conflicts, stagingRead, storeRead>>

\* lines 35-38
CheckAgent ==
    /\ pc = "agent"
    /\ AGENT_NAME' = env.AGENT_NAME
    /\ IF AgentMissing(AGENT_NAME')
       THEN stderr' = Append(stderr, MissingAgentError) /\ Exit(1)
       ELSE stderr' = stderr /\ pc' = "staged" /\ exit_status' = exit_status
    /\ UNCHANGED <<inputs, now, GATE, ADVISORY, paths, loaderVars, union_spec,
                   conflicts, stagingRead, storeRead>>

CollectStagedNoExit ==
    /\ pc = "staged"
    /\ stagingRead' = TRUE
    /\ paths' = CollectPaths(git)
    /\ pc' = "list"
    /\ UNCHANGED <<inputs, now, GATE, ADVISORY, AGENT_NAME, loaderVars, union_spec,
                   conflicts, stderr, storeRead, exit_status>>

\* lines 41-71
CollectStaged ==
    /\ pc = "staged"
    /\ stagingRead' = TRUE
    /\ paths' = CollectPaths(git)
    /\ IF paths' = <<>> THEN Exit(0) ELSE pc' = "list" /\ exit_status' = exit_status
    /\ UNCHANGED <<inputs, now, GATE, ADVISORY, AGENT_NAME, loaderVars, union_spec,
                   conflicts, stderr, storeRead>>

\* line 108, FILE_RESERVATIONS_DIR.iterdir(): a directory that cannot be
\* listed raises into the except clause of lines 145-147
ListStoreCreatingDir ==
    /\ pc = "list"
    /\ storeRead' = TRUE
    /\ store' = IF store.listable THEN store ELSE [listable |-> TRUE, files |-> <<>>]
    /\ pc' = "file"
    /\ storeSeen' = storeSeen \cup {store'}
    /\ UNCHANGED <<env, git, psAvailable, prev, apart, now, GATE, ADVISORY, AGENT_NAME, paths,
                   loaderVars, union_spec, conflicts, stderr, exit_status, stagingRead>>

ListStore ==
    /\ pc = "list"
    /\ storeRead' = TRUE
    /\ pc' = IF store.listable THEN "file" ELSE "union"
    /\ UNCHANGED <<inputs, now, GATE, ADVISORY, AGENT_NAME, paths, loaderVars, union_spec,
                   conflicts, stderr, exit_status, stagingRead>>

NextFileAbortsOnCorrupt ==
    /\ pc = "file"
    /\ IF fileIdx = Len(store.files)
       THEN pc' = "union" /\ UNCHANGED <<fileIdx, recs, recIdx, compiled_patterns,
                                         all_pattern_strings, origins>>
       ELSE LET f == store.files[fileIdx + 1] IN
            /\ fileIdx' = fileIdx + 1
            /\ recIdx' = 0
            /\ IF IsJsonName(f.name) /\ ~f.parses
               THEN /\ recs' = <<>> /\ pc' = "union"
                    /\ compiled_patterns' = <<>>
                    /\ all_pattern_strings' = <<>>
                    /\ origins' = <<>>
               ELSE /\ UNCHANGED <<compiled_patterns, all_pattern_strings, origins>>
                    /\ IF IsJsonName(f.name)
                       THEN recs' = f.items /\ pc' = "record"
                       ELSE recs' = <<>> /\ pc' = "file"
    /\ UNCHANGED <<inputs, now, GATE, ADVISORY, AGENT_NAME, paths, examined, seen_ids,
                   union_spec, conflicts, stderr, exit_status, stagingRead, storeRead>>

\* lines 108-115: the next directory entry; a name without .json and a file
\* that does not read or parse are passed over
NextFile ==
    /\ pc = "file"
    /\ IF fileIdx = Len(store.files)
       THEN pc' = "union" /\ UNCHANGED <<fileIdx, recs, recIdx>>
       ELSE LET f == store.files[fileIdx + 1] IN
            /\ fileIdx' = fileIdx + 1
            /\ recIdx' = 0
            /\ IF IsJsonName(f.name) /\ f.parses
               THEN recs' = f.items /\ pc' = "record"
               ELSE recs' = <<>> /\ pc' = "file"
    /\ UNCHANGED <<inputs, now, GATE, ADVISORY, AGENT_NAME, paths, examined, seen_ids,
                   compiled_patterns, all_pattern_strings, origins, union_spec, conflicts,
                   stderr, exit_status, stagingRead, storeRead>>

\* lines 116-147: one pass of the loop body; an exception leaves both loops
\* and empties both lists
NextRecord ==
    /\ pc = "record"
    /\ IF recIdx = Len(recs)
       THEN /\ pc' = "file"
            /\ UNCHANGED <<recIdx, examined, seen_ids, compiled_patterns,
                           all_pattern_strings, origins>>
       ELSE LET r == recs[recIdx + 1]
                v == Verdict(r, seen_ids, AGENT_NAME.s, now)
            IN  /\ recIdx' = recIdx + 1
                /\ examined' = Append(examined, [file |-> fileIdx, rec |-> recIdx + 1,
                                                 clock |-> now, verdict |-> v])
                /\ seen_ids' = IF v = "duplicate" THEN seen_ids ELSE SeenAfter(r, seen_ids)
                /\ IF v = "raise"
                   THEN /\ compiled_patterns' = <<>>
                        /\ all_pattern_strings' = <<>>
                        /\ origins' = <<>>
                        /\ pc' = "union"
                   ELSE IF v = "keep"
                   THEN /\ compiled_patterns' = Append(compiled_patterns, Compiled(r, psAvailable))
                        /\ all_pattern_strings' =
                               Append(all_pattern_strings, Compiled(r, psAvailable).patt_norm)
                        /\ origins' = Append(origins, <<fileIdx, recIdx + 1>>)
                        /\ pc' = "record"
                   ELSE /\ UNCHANGED <<compiled_patterns, all_pattern_strings, origins>>
                        /\ pc' = "record"
    /\ UNCHANGED <<inputs, now, GATE, ADVISORY, AGENT_NAME, paths, fileIdx, recs, union_spec,
                   conflicts, stderr, exit_status, stagingRead, storeRead>>

\* lines 150-155
BuildUnionSpec ==
    /\ pc = "union"
    /\ union_spec' = BuildUnion(psAvailable, all_pattern_strings)
    /\ pc' = "match"
    /\ UNCHANGED <<inputs, now, GATE, ADVISORY, AGENT_NAME, paths, loaderVars,
                   conflicts, stderr, exit_status, stagingRead, storeRead>>

\* lines 158-169
MatchPaths ==
    /\ pc = "match"
    /\ conflicts' = FindConflicts(paths, compiled_patterns, union_spec)
    /\ pc' = "decide"
    /\ UNCHANGED <<inputs, now, GATE, ADVISORY, AGENT_NAME, paths, loaderVars, union_spec,
                   stderr, exit_status, stagingRead, storeRead>>

\* lines 170-177
DecideQuietInAdvisory ==
    /\ pc = "decide"
    /\ stderr' = IF ADVISORY THEN stderr ELSE stderr \o Report(conflicts)
    /\ Exit(Decision(conflicts, ADVISORY))
    /\ UNCHANGED <<inputs, now, GATE, ADVISORY, AGENT_NAME, paths, loaderVars, union_spec,
                   conflicts, stagingRead, storeRead>>

Decide ==
    /\ pc = "decide"
    /\ stderr' = stderr \o Report(conflicts)
    /\ Exit(Decision(conflicts, ADVISORY))
    /\ UNCHANGED <<inputs, now, GATE, ADVISORY, AGENT_NAME, paths, loaderVars, union_spec,
                   conflicts, stagingRead, storeRead>>

-----------------------------------------------------------------------------
(* The inputs of an invocation *)

\* the longest store, in directory entries
MaxDocs == 2

\* values of the two gate variables, the mode, the bypass and the identity
GateTexts   == {Unset, Text(<<>>), Text(<<"0">>), Text(<<"1">>), Text(<<" ","Y","e","s"," ">>)}
ModeTexts   == {Unset, Text(<<>>), Text(<<" ","W","a","r","n"," ">>), Text(<<"A","D","V">>), Text(<<"b","l","o","c","k">>)}
BypassTexts == {Unset, Text(<<>>), Text(<<"0">>), Text(<<" ","T","R","U","E"," ">>)}
AgentTexts  == {Unset, Text(<<>>), Text(<<"a","l","i","c","e">>), Text(<<"a","l","i","c","e"," ">>)}

Envs(gates, modes, bypasses, agents) ==
    [WORKTREES_ENABLED : gates, GIT_IDENTITY_ENABLED : gates,
     AGENT_MAIL_GUARD_MODE : modes, AGENT_MAIL_BYPASS : bypasses, AGENT_NAME : agents]

\* the staging area: the output of the two git commands, or the one that fails
Git(fail, names, status) ==
    [fail |-> fail, nameOnly |-> ZJoin(names), nameStatus |-> ZJoin(status)]

MainTs   == <<"s","r","c","/","a","p","p","/","m","a","i","n",".","t","s">>
ReadmeMd == <<"d","o","c","s","/","r","e","a","d","m","e",".","m","d">>
OldMd    == <<"d","o","c","s","/","o","l","d",".","m","d">>
NewTs    == <<"s","r","c","/","n","e","w",".","t","s">>

GitNothing  == Git("none", <<>>, <<>>)
GitModified == Git("none", <<MainTs, ReadmeMd>>, <<<<"M">>, MainTs, <<"A">>, ReadmeMd>>)
GitReadme   == Git("none", <<ReadmeMd>>, <<<<"M">>, ReadmeMd>>)
GitRename   == Git("none", <<NewTs>>, <<<<"R","1","0","0">>, OldMd, NewTs>>)
GitFailsFirst  == Git("name-only", <<>>, <<>>)
GitFailsSecond == Git("name-status", <<MainTs>>, <<>>)

Gits == {GitNothing, GitModified, GitReadme, GitRename, GitFailsFirst, GitFailsSecond}

\* the instants the clock is read at
Instants == {_parse_iso(s).t : s \in {<<"2","0","2","5","-","1","2","-","3","1","T","2","3",":","5","9",":","5","9","Z">>, <<"2","0","2","6","-","0","1","-","0","1","T","0","0",":","0","0",":","0","0","Z">>,
                                      <<"2","0","2","6","-","0","1","-","0","1","T","0","1",":","0","0",":","0","0","Z">>}}

\* reservation records
TsGlob == Str(<<"s","r","c","/","*","*","/","*",".","t","s">>)
DocsGlob == Str(<<"d","o","c","s","/","*">>)
Bob == Str(<<"b","o","b">>)
Carol == Str(<<"c","a","r","o","l">>)

RecD        == Rec(Str(<<"r","1">>), TsGlob, Bob, Bool(TRUE), Str(<<>>))
RecShared   == Rec(Str(<<"r","1">>), TsGlob, Bob, Bool(FALSE), Absent)
RecOwn      == Rec(Absent, DocsGlob, Str(<<"a","l","i","c","e">>), Bool(TRUE), Absent)
RecOwnPad   == Rec(Absent, TsGlob, Str(<<"a","l","i","c","e"," ">>), Bool(TRUE), Absent)
RecMidnight == Rec(Str(<<"r","3">>), TsGlob, Bob, Bool(TRUE), Str(<<"2","0","2","6","-","0","1","-","0","1","T","0","0",":","0","0",":","0","0","Z">>))
RecOffset   == Rec(Absent, DocsGlob, Carol, Bool(TRUE), Str(<<" ","2","0","2","6","-","0","1","-","0","1","T","0","2",":","0","0",":","0","0","+","0","1",":","0","0"," ">>))
RecOrdinal  == Rec(Absent, DocsGlob, Bob, Bool(TRUE), Str(<<"2","0","2","5","-","3","6","5","T","0","0",":","0","0",":","0","0","Z">>))
RecNever    == Rec(Absent, DocsGlob, Carol, Bool(TRUE), Str(<<"n","e","v","e","r">>))
RecEpoch    == Rec(Absent, TsGlob, Carol, Bool(TRUE), Num(1767225600))
RecVirtual  == Rec(Absent, Str(<<"t","o","o","l",":","/","/","b","u","i","l","d">>), Bob, Bool(TRUE), Absent)
RecDefault  == Rec(Absent, DocsGlob, Carol, Absent, Absent)
RecSameId   == Rec(Str(<<"r","1">>), DocsGlob, Carol, Bool(TRUE), Absent)
RecBlank    == Rec(Absent, Str(<<" "," ">>), Bob, Bool(TRUE), Absent)
RecSharedExpiring == Rec(Absent, DocsGlob, Carol, Bool(FALSE), Str(<<"2","0","2","6","-","0","1","-","0","1","T","0","2",":","0","0",":","0","0","+","0","1",":","0","0">>))
RecNumPatt  == Rec(Absent, Num(5), Bob, Bool(TRUE), Absent)

\* directory entries
DocD == Doc(<<"r","1",".","j","s","o","n">>, <<RecD>>)

Docs ==
    { Doc(<<"a",".","j","s","o","n">>, <<r>>) : r \in {RecD, RecShared, RecOwn, RecOwnPad, RecMidnight,
                                    RecOffset, RecOrdinal, RecNever, RecEpoch, RecVirtual,
                                    RecDefault, RecSameId, RecBlank, RecNumPatt,
                                    RecSharedExpiring, NotAMapping} }
    \cup { Doc(<<"b",".","j","s","o","n">>, <<RecShared, RecD>>), CorruptDoc(<<"c",".","j","s","o","n">>),
           Doc(<<"n","o","t","e","s",".","t","x","t">>, <<RecD>>) }

Listable(files) == [listable |-> TRUE, files |-> files]
Unlistable == [listable |-> FALSE, files |-> <<>>]

\* the entries of a directory have different names: the entry at position i
\* is named with i in front
Numbered(fs) == [i \in DOMAIN fs |-> [fs[i] EXCEPT !.name = NatText(i) \o @]]

\* every store of at most n entries drawn from docs, and the missing directory
Stores(docs, n) ==
    {Unlistable} \cup {Listable(Numbered(fs)) : fs \in UNION {[1..k -> docs] : k \in 0..n}}

-----------------------------------------------------------------------------
(* Specifications *)

\* the clock moves on before it is read: _not_expired reads it (line 93) for
\* an entry that comes as far as line 138 with an expires_ts that parses
ReadsClock(r, seen, agent) ==
    /\ Verdict(r, seen, agent, now) \in {"expired", "keep"}
    /\ _parse_iso(Stripped(r.expires_ts)).ok

Tick ==
    /\ pc = "record"
    /\ recIdx < Len(recs)
    /\ ReadsClock(recs[recIdx + 1], seen_ids, AGENT_NAME.s)
    /\ \E t \in Instants : t > now /\ now' = t
    /\ UNCHANGED <<inputs, pc, GATE, ADVISORY, AGENT_NAME, paths, loaderVars, union_spec,
                   conflicts, stderr, exit_status, stagingRead, storeRead>>

Step ==
    \/ CheckGate
    \/ ReadMode
    \/ CheckBypass
    \/ CheckAgent
    \/ CollectStaged
    \/ ListStore
    \/ NextFile
    \/ NextRecord
    \/ BuildUnionSpec
    \/ MatchPaths
    \/ Decide
    \/ Tick

\* every environment, over a few stores
Init ==
    /\ env \in Envs(GateTexts, ModeTexts, BypassTexts, AgentTexts)
    /\ git \in {GitNothing, GitModified}
    /\ store \in {Unlistable, Listable(<<DocD>>),
                  Listable(<<Doc(<<"s",".","j","s","o","n">>, <<RecShared, RecMidnight>>)>>)}
    /\ psAvailable \in BOOLEAN
    /\ now \in {t \in Instants : \A u \in Instants : u >= t}
    /\ prev = NoPrev
    /\ Fresh
    /\ Quiet

Next == Step

Spec == Init /\ [][Next]_vars

\* every store, under a few environments in which the gate is open
InitStore ==
    /\ env \in Envs({Text(<<"1">>)}, {Unset}, {Unset}, {Text(<<"a","l","i","c","e">>), Text(<<"a","l","i","c","e"," ">>)})
    /\ git = GitModified
    /\ store \in Stores(Docs, MaxDocs)
    /\ psAvailable \in BOOLEAN
    /\ now \in {t \in Instants : \A u \in Instants : u >= t}
    /\ prev = NoPrev
    /\ Fresh
    /\ Quiet

NextStore == Step

SpecStore == InitStore /\ [][NextStore]_vars

\* two invocations in succession: the second runs in the environment of
\* the first with the gate variables and the mode set anew, over the same
\* staging area and store
PairGates == {Unset, Text(<<>>), Text(<<"1">>)}
PairModes == {Unset, Text(<<"w","a","r","n">>), Text(<<" ","A","d","v","i","s","o","r","y"," ">>)}

\* what an invocation leaves behind: its inputs and what it reported
Outcome ==
    [ran |-> TRUE, env |-> env, GATE |-> GATE, exit_status |-> exit_status,
     stderr |-> stderr, conflicts |-> conflicts,
     clocks |-> [k \in DOMAIN examined |-> examined[k].clock], store |-> store]

Reinvoke ==
    /\ pc = "done"
    /\ ~prev.ran
    /\ prev' = Outcome
    /\ \E we \in PairGates, gi \in PairGates, m \in PairModes :
          env' = [env EXCEPT !.WORKTREES_ENABLED = we, !.GIT_IDENTITY_ENABLED = gi,
                             !.AGENT_MAIL_GUARD_MODE = m]
    /\ pc' = "gate"
    /\ GATE' = <<>>
    /\ ADVISORY' = FALSE
    /\ AGENT_NAME' = Unset
    /\ paths' = <<>>
    /\ fileIdx' = 0
    /\ recs' = <<>>
    /\ recIdx' = 0
    /\ examined' = <<>>
    /\ seen_ids' = {}
    /\ compiled_patterns' = <<>>
    /\ all_pattern_strings' = <<>>
    /\ origins' = <<>>
    /\ union_spec' = NoSpec
    /\ conflicts' = <<>>
    /\ stderr' = <<>>
    /\ exit_status' = -1
    /\ stagingRead' = FALSE
    /\ storeRead' = FALSE
    /\ UNCHANGED <<git, store, psAvailable, now, storeSeen, apart>>

InitPair ==
    /\ env \in Envs(PairGates, PairModes, {Unset, Text(<<"1">>)}, {Unset, Text(<<"a","l","i","c","e">>)})
    /\ git \in {GitNothing, GitModified}
    /\ store \in {Listable(<<DocD>>), Listable(<<Doc(<<"s",".","j","s","o","n">>, <<RecShared, RecMidnight>>)>>)}
    /\ psAvailable \in BOOLEAN
    /\ now \in {t \in Instants : \A u \in Instants : u >= t}
    /\ prev = NoPrev
    /\ Fresh
    /\ Quiet

NextPair == Step \/ Reinvoke

SpecPair == InitPair /\ [][NextPair]_vars

\* staged paths and reservations that exercise the matcher: a path with
\* backslashes, a path that a virtual pattern spells after normalisation, a
\* pattern with a leading slash and surrounding blanks, the three virtual
\* prefixes
GitWindows == Git("none", <<<<"s","r","c","\\","w","i","n","\\","i","o",".","t","s">>>>, <<<<"A">>, <<"s","r","c","\\","w","i","n","\\","i","o",".","t","s">>>>)
GitOdd     == Git("none", <<<<"t","o","o","l",":","\\","/","b","u","i","l","d">>, MainTs>>, <<<<"A">>, <<"t","o","o","l",":","\\","/","b","u","i","l","d">>, <<"M">>, MainTs>>)

RecRooted   == Rec(Str(<<"r","7">>), Str(<<" ","/","s","r","c","/","*","*"," ">>), Str(<<" ","c","a","r","o","l"," ">>), Bool(TRUE), Absent)
RecService  == Rec(Absent, Str(<<"s","e","r","v","i","c","e",":","/","/","a","p","i","/","*">>), Bob, Bool(TRUE), Str(<<>>))
RecResource == Rec(Absent, Str(<<" ","r","e","s","o","u","r","c","e",":","/","/","*","*">>), Carol, Absent, Absent)

MatchDocs ==
    { Doc(<<"m",".","j","s","o","n">>, <<r>>) : r \in {RecD, RecRooted, RecVirtual, RecService, RecResource,
                                    RecMidnight, RecDefault} }
    \cup { Doc(<<"n",".","j","s","o","n">>, <<RecOwnPad, RecMidnight>>) }

\* every staging area, over the stores of the matcher's records, with the
\* gate open
InitMatch ==
    /\ env \in Envs({Text(<<"1">>)}, {Unset}, {Unset}, {Text(<<"a","l","i","c","e">>)})
    /\ git \in Gits \cup {GitWindows, GitOdd}
    /\ store \in Stores(MatchDocs, MaxDocs)
    /\ psAvailable \in BOOLEAN
    /\ now \in {t \in Instants : \A u \in Instants : u >= t}
    /\ prev = NoPrev
    /\ Fresh
    /\ Quiet

SpecMatch == InitMatch /\ [][Next]_vars

\* the most files staged at once
MaxStaged == 15

\* n staged TypeScript files src/f1.ts .. src/fn.ts
StagedFiles(n) == [i \in 1..n |-> <<"s","r","c","/","f">> \o NatText(i) \o <<".","t","s">>]

\* up to MaxStaged modified files, listed by both staging queries or by the
\* first alone, over a store with one or two reservations that match them
\* all, in blocking and in advisory mode
InitReport ==
    /\ env \in Envs({Text(<<"1">>)}, {Unset, Text(<<"w","a","r","n">>)}, {Unset}, {Text(<<"a","l","i","c","e">>)})
    /\ \E n \in 0..MaxStaged, fail \in {"none", "name-status"} :
          git = [fail |-> fail, nameOnly |-> ZJoin(StagedFiles(n)),
                 nameStatus |-> ZJoin([i \in 1..(2 * n) |->
                                         IF i % 2 = 1 THEN <<"M">> ELSE StagedFiles(n)[i \div 2]])]
    /\ store \in {Listable(<<DocD>>), Listable(<<Doc(<<"t",".","j","s","o","n">>, <<RecD, RecRooted>>)>>),
                  Listable(<<Doc(<<"t",".","j","s","o","n">>, <<RecRooted, RecMidnight>>)>>)}
    /\ psAvailable \in BOOLEAN
    /\ now \in {t \in Instants : \A u \in Instants : u >= t}
    /\ prev = NoPrev
    /\ Fresh
    /\ Quiet

SpecReport == InitReport /\ [][Next]_vars

\* xs with x put in at position j, and xs without its entry at position j
InsertAt(xs, j, x) ==
    [i \in 1..(Len(xs) + 1) |-> IF i < j THEN xs[i] ELSE IF i = j THEN x ELSE xs[i - 1]]

RemoveAt(xs, j) == [i \in 1..(Len(xs) - 1) |-> IF i < j THEN xs[i] ELSE xs[i + 1]]

\* a second invocation in the same environment, over the same staging area
\* and the store s: the outcome of the first is kept and the script's
\* variables start anew
AgainKeepingSeenIds(s) ==
    /\ pc = "done"
    /\ ~prev.ran
    /\ prev' = Outcome
    /\ store' = s
    /\ pc' = "gate"
    /\ GATE' = <<>>
    /\ ADVISORY' = FALSE
    /\ AGENT_NAME' = Unset
    /\ paths' = <<>>
    /\ fileIdx' = 0
    /\ recs' = <<>>
    /\ recIdx' = 0
    /\ examined' = <<>>
    /\ seen_ids' = seen_ids
    /\ compiled_patterns' = <<>>
    /\ all_pattern_strings' = <<>>
    /\ origins' = <<>>
    /\ union_spec' = NoSpec
    /\ conflicts' = <<>>
    /\ stderr' = <<>>
    /\ exit_status' = -1
    /\ stagingRead' = FALSE
    /\ storeRead' = FALSE
    /\ storeSeen' = {s}
    /\ UNCHANGED <<env, git, psAvailable, now, apart>>

Again(s) ==
    /\ pc = "done"
    /\ ~prev.ran
    /\ prev' = Outcome
    /\ store' = s
    /\ pc' = "gate"
    /\ GATE' = <<>>
    /\ ADVISORY' = FALSE
    /\ AGENT_NAME' = Unset
    /\ paths' = <<>>
    /\ fileIdx' = 0
    /\ recs' = <<>>
    /\ recIdx' = 0
    /\ examined' = <<>>
    /\ seen_ids' = {}
    /\ compiled_patterns' = <<>>
    /\ all_pattern_strings' = <<>>
    /\ origins' = <<>>
    /\ union_spec' = NoSpec
    /\ conflicts' = <<>>
    /\ stderr' = <<>>
    /\ exit_status' = -1
    /\ stagingRead' = FALSE
    /\ storeRead' = FALSE
    /\ storeSeen' = {s}
    /\ UNCHANGED <<env, git, psAvailable, now, apart>>

\* the same documents, listed by iterdir() in any order (the order of a
\* directory listing is not specified), the first order among them
Reenumerate ==
    \E f \in [DOMAIN store.files -> DOMAIN store.files] :
        /\ \A i, j \in DOMAIN store.files : f[i] = f[j] => i = j
        /\ Again([store EXCEPT !.files = [i \in DOMAIN store.files |-> store.files[f[i]]]])

\* a document that does not read or parse has appeared in the directory
AddCorrupt ==
    /\ store.listable
    /\ \E j \in 1..(Len(store.files) + 1) :
          Again([store EXCEPT !.files = InsertAt(@, j, CorruptDoc(<<"x",".","j","s","o","n">>))])

\* a malformed record has appeared, in a document of its own or in one of
\* the documents
AddMalformed ==
    /\ store.listable
    /\ \E m \in {NotAMapping, RecEpoch, RecNumPatt,
                 Rec(Str(<<"r","9">>), DocsGlob, Num(7), Bool(TRUE), Absent)} :
          \/ \E j \in 1..(Len(store.files) + 1) :
                Again([store EXCEPT !.files = InsertAt(@, j, Doc(<<"y",".","j","s","o","n">>, <<m>>))])
          \/ \E f \in DOMAIN store.files :
                /\ store.files[f].parses
                /\ \E i \in 1..(Len(store.files[f].items) + 1) :
                      Again([store EXCEPT !.files[f].items = InsertAt(@, i, m)])

InitAgain ==
    /\ env \in Envs({Text(<<"1">>)}, {Unset}, {Unset}, {Text(<<"a","l","i","c","e">>)})
    /\ git = GitModified
    /\ store \in Stores({Doc(<<"d",".","j","s","o","n">>, <<r>>) :
                            r \in {RecD, RecSameId, RecRooted, RecDefault, RecMidnight}},
                        MaxDocs)
    /\ psAvailable \in BOOLEAN
    /\ now \in {t \in Instants : \A u \in Instants : u >= t}
    /\ prev = NoPrev
    /\ Fresh
    /\ Quiet

NextAgain == Step \/ Reenumerate \/ AddCorrupt \/ AddMalformed

SpecAgain == InitAgain /\ [][NextAgain]_vars


\* staged renames: one alone, two in a row, one with a modified file, and
\* one listed after an added file whose name is a single byte that does not
\* decode (git lists the entries in the byte order of their paths, so the
\* new name begins with a character beyond ASCII)
EnyeTs == <<"<c3><b1>">> \o <<".","t","s">>

GitRenamePair   == Git("none", <<NewTs, <<"s","r","c","/","z","e","d",".","t","s">>>>,
                       <<<<"R","1","0","0">>, OldMd, NewTs, <<"R","0","8","7">>, MainTs, <<"s","r","c","/","z","e","d",".","t","s">>>>)
GitRenameAfter  == Git("none", <<ReadmeMd, NewTs>>, <<<<"M">>, ReadmeMd, <<"R","1","0","0">>, OldMd, NewTs>>)
GitRenameBadName == Git("none", <<EnyeTs, <<InvalidByte>>>>,
                        <<<<"A">>, <<InvalidByte>>, <<"R","1","0","0">>, OldMd, EnyeTs>>)

InitRename ==
    /\ env \in Envs({Text(<<"1">>)}, {Unset, Text(<<"w","a","r","n">>)}, {Unset}, {Text(<<"a","l","i","c","e">>)})
    /\ git \in {GitRename, GitRenamePair, GitRenameAfter, GitRenameBadName}
    /\ store \in Stores({Doc(<<"d",".","j","s","o","n">>, <<r>>) : r \in {RecD, RecDefault, RecMidnight}}, MaxDocs)
    /\ psAvailable \in BOOLEAN
    /\ now \in {t \in Instants : \A u \in Instants : u >= t}
    /\ prev = NoPrev
    /\ Fresh
    /\ Quiet

SpecRename == InitRename /\ [][Next]_vars

\* reservations whose union differs from its members: a pattern that begins
\* with "!" after a pattern it takes back
RecNegated == Rec(Str(<<"r","8">>), Str(<<"!","s","r","c","/","a","p","p","/","*">>), Carol, Bool(TRUE), Absent)

InitUnion ==
    /\ env \in Envs({Text(<<"1">>)}, {Unset, Text(<<"w","a","r","n">>)}, {Unset}, {Text(<<"a","l","i","c","e">>)})
    /\ git \in {GitModified, GitWindows, GitRename}
    /\ store \in Stores({Doc(<<"u",".","j","s","o","n">>, <<r>>) : r \in {RecD, RecNegated, RecRooted, RecMidnight}},
                        MaxDocs)
    /\ psAvailable \in BOOLEAN
    /\ now \in {t \in Instants : \A u \in Instants : u >= t}
    /\ prev = NoPrev
    /\ Fresh
    /\ Quiet

SpecUnion == InitUnion /\ [][Next]_vars

\* the most writes of the reservation system during one invocation
MaxWrites == 2

\* the external reservation system replaces the content of one document
\* while the guard runs; the guard reads a document when it comes to it
\* (line 112), so it reads the content of that moment
Rewrite ==
    /\ pc # "done"
    /\ store.listable
    /\ Cardinality(storeSeen) <= MaxWrites
    /\ \E f \in DOMAIN store.files, r \in {RecD, RecDefault, RecMidnight} :
          \E items \in {<<>>, <<r>>} :
             /\ store.files[f].items # items
             /\ store' = [store EXCEPT !.files[f].items = items]
    /\ storeSeen' = storeSeen \cup {store'}
    /\ UNCHANGED <<env, git, psAvailable, prev, apart, now, pc, GATE, ADVISORY, AGENT_NAME,
                   paths, loaderVars, union_spec, conflicts, stderr, exit_status,
                   stagingRead, storeRead>>

InitConcurrent ==
    /\ env \in Envs({Text(<<"1">>)}, {Unset}, {Unset}, {Text(<<"a","l","i","c","e">>)})
    /\ git = GitModified
    /\ store \in Stores({Doc(<<"c",".","j","s","o","n">>, <<r>>) : r \in {RecD, RecDefault, RecMidnight}}, MaxDocs)
    /\ psAvailable = FALSE
    /\ now \in {t \in Instants : \A u \in Instants : u >= t}
    /\ prev = NoPrev
    /\ Fresh
    /\ Quiet

NextConcurrent == Step \/ Rewrite

SpecConcurrent == InitConcurrent /\ [][NextConcurrent]_vars

-----------------------------------------------------------------------------
(* The SessionStart auto-setup (hooks/scripts/auto-setup.py, scripts/lib.py) *)

\* lib.py line 361
MAX_AGE_DAYS == 7

\* lib.py lines 364-370: the marker exists and is less than MAX_AGE_DAYS old
\* at time t
marker_is_fresh(m, t) == m.exists /\ (t - m.mtime) < MAX_AGE_DAYS * 86400

\* lib.py lines 373-375, at time t
touch_marker(t) == [exists |-> TRUE, mtime |-> t]

\* what check_claudeman_installed() may return
check_claudeman_installed == BOOLEAN

\* the variables of the pre-commit guard, of auto-setup and of init
hookVars == <<env, git, store, psAvailable, prev, storeSeen, pc, GATE, ADVISORY, AGENT_NAME,
              paths, loaderVars, union_spec, conflicts, stderr, exit_status, stagingRead,
              storeRead>>
atlasVars == <<registry, added>>

\* installed.append(tool) or missing.append(tool)
Record(tool, ready) ==
    /\ installed' = IF ready THEN Append(installed, tool) ELSE installed
    /\ missing' = IF ready THEN missing ELSE Append(missing, tool)

\* lines 23-31: the servers of the installed tools are started
EnsureServers ==
    /\ spc = "start"
    /\ spc' = "marker"
    /\ UNCHANGED <<hookVars, atlasVars, prevInstall, now, marker, installed, missing, steps, freshAtCheck,
                   markerAtStart>>

\* lines 33-35
CheckMarker ==
    /\ spc = "marker"
    /\ freshAtCheck' = marker_is_fresh(marker, now)
    /\ spc' = IF freshAtCheck' THEN "done" ELSE "claude"
    /\ UNCHANGED <<hookVars, atlasVars, prevInstall, now, marker, installed, missing, steps, markerAtStart>>

\* lines 37-41
CheckClaude ==
    /\ spc = "claude"
    /\ \E claude \in BOOLEAN : spc' = IF claude THEN "context7" ELSE "done"
    /\ installed' = <<>>
    /\ missing' = <<>>
    /\ UNCHANGED <<hookVars, atlasVars, prevInstall, now, marker, steps, freshAtCheck, markerAtStart>>

\* lines 43-55
Context7 ==
    /\ spc = "context7"
    /\ \E mcp, plugin, ok \in BOOLEAN :
          LET s1 == IF mcp /\ ~plugin
                    THEN Append(steps, "claude mcp remove --scope user context7") ELSE steps
          IN  IF plugin THEN steps' = s1 /\ Record("Context7", TRUE)
              ELSE /\ steps' = Append(s1, "claude plugin install context7@claude-plugins-official")
                   /\ Record("Context7", ok)
    /\ spc' = "serena"
    /\ UNCHANGED <<hookVars, atlasVars, prevInstall, now, marker, freshAtCheck, markerAtStart>>

\* lines 57-73
Serena ==
    /\ spc = "serena"
    /\ \E mcp, plugin, uvx, ok \in BOOLEAN :
          LET s1 == IF mcp /\ ~plugin
                    THEN Append(steps, "claude mcp remove --scope user serena") ELSE steps
          IN  IF plugin THEN steps' = s1 /\ Record("Serena", TRUE)
              ELSE IF uvx
              THEN /\ steps' = Append(s1, "claude plugin install serena@claude-plugins-official")
                   /\ Record("Serena", ok)
              ELSE steps' = s1 /\ Record("Serena", FALSE)
    /\ spc' = "beads"
    /\ UNCHANGED <<hookVars, atlasVars, prevInstall, now, marker, freshAtCheck, markerAtStart>>

\* lines 75-87: check_marketplace (line 80) is not among the names imported
\* at lines 12-20, so the call raises NameError and the run ends there
Beads ==
    /\ spc = "beads"
    /\ \E bd, plugin \in BOOLEAN :
          IF bd /\ plugin THEN Record("Beads", TRUE) /\ spc' = "beadsui"
          ELSE IF bd THEN UNCHANGED <<installed, missing>> /\ spc' = "crashed"
          ELSE Record("Beads", FALSE) /\ spc' = "beadsui"
    /\ UNCHANGED <<hookVars, atlasVars, prevInstall, now, marker, steps, freshAtCheck, markerAtStart>>

\* lines 89-99
BeadsUi ==
    /\ spc = "beadsui"
    /\ \E bdui, npm, ok \in BOOLEAN :
          IF bdui THEN steps' = steps /\ Record("beads-ui", TRUE)
          ELSE IF npm THEN steps' = Append(steps, "npm i -g beads-ui") /\ Record("beads-ui", ok)
          ELSE steps' = steps /\ Record("beads-ui", FALSE)
    /\ spc' = "mail"
    /\ UNCHANGED <<hookVars, atlasVars, prevInstall, now, marker, freshAtCheck, markerAtStart>>

\* lines 101-142: venv is check_mail_installed() at line 102 and venvAfter at
\* line 134, dir is os.path.isdir(MAIL_DIR) at line 106 and dir \/ cloned at
\* line 108
AgentMail ==
    /\ spc = "mail"
    /\ \E venv, mcp, uvx, git_, dir, cloned, venvAfter \in BOOLEAN :
          /\ venv => (dir /\ venvAfter)
          /\ IF venv /\ mcp THEN steps' = steps /\ Record("Agent Mail", TRUE)
             ELSE IF uvx /\ git_
             THEN LET s1 == IF ~dir THEN Append(steps, "git clone mcp_agent_mail") ELSE steps
                  IN  IF dir \/ cloned
                      THEN /\ steps' = s1 \o <<"uv venv --python 3.13 && uv sync",
                                               "claude mcp add agent-mail">>
                           /\ Record("Agent Mail", venvAfter)
                      ELSE steps' = s1 /\ UNCHANGED <<installed, missing>>
             ELSE steps' = steps /\ Record("Agent Mail", FALSE)
    /\ spc' = "claudeman"
    /\ UNCHANGED <<hookVars, atlasVars, prevInstall, now, marker, freshAtCheck, markerAtStart>>

\* lines 144-162
Claudeman ==
    /\ spc = "claudeman"
    /\ \E inst \in check_claudeman_installed, instAfter \in check_claudeman_installed,
          tools, dir, cloned, modules, npmOk \in BOOLEAN :
          /\ inst => instAfter
          /\ IF inst THEN steps' = steps /\ Record("Claudeman", TRUE)
             ELSE IF tools
             THEN LET ok1 == dir \/ cloned
                      s1  == IF ~dir THEN Append(steps, "git clone Claudeman") ELSE steps
                      ok2 == IF ok1 /\ ~modules THEN npmOk ELSE ok1
                  IN  /\ steps' = IF ok1 /\ ~modules THEN Append(s1, "npm install") ELSE s1
                      /\ Record("Claudeman", ok2 /\ instAfter)
             ELSE steps' = steps /\ Record("Claudeman", FALSE)
    /\ spc' = "summary"
    /\ UNCHANGED <<hookVars, atlasVars, prevInstall, now, marker, freshAtCheck, markerAtStart>>

\* lines 164-173: the summary is logged and the marker written
Summary ==
    /\ spc = "summary"
    /\ marker' = touch_marker(now)
    /\ spc' = "done"
    /\ UNCHANGED <<hookVars, atlasVars, prevInstall, now, installed, missing, steps, freshAtCheck,
                   markerAtStart>>

\* the times at which a session starts, in seconds
SetupInstants == {691200, 777600, 1295999, 1296000}

\* the next session starts later and runs the hook anew
NextSession ==
    /\ spc \in {"done", "crashed"}
    /\ \E t \in SetupInstants : t > now /\ now' = t
    /\ spc' = "start"
    /\ installed' = <<>>
    /\ missing' = <<>>
    /\ steps' = <<>>
    /\ freshAtCheck' = FALSE
    /\ markerAtStart' = marker
    /\ prevInstall' = IF steps # <<>> THEN now ELSE prevInstall
    /\ UNCHANGED <<hookVars, atlasVars, marker>>

\* the guard is not running
HookOff ==
    /\ env \in Envs({Unset}, {Unset}, {Unset}, {Unset})
    /\ git = GitNothing
    /\ store = Unlistable
    /\ psAvailable = FALSE
    /\ prev = NoPrev
    /\ Fresh
    /\ storeSeen = {store}

InitSetup ==
    /\ HookOff
    /\ now = 691200
    /\ marker \in {[exists |-> FALSE, mtime |-> 0]}
                     \cup {touch_marker(t) : t \in {86400, 86401}}
    /\ spc = "start"
    /\ installed = <<>>
    /\ missing = <<>>
    /\ steps = <<>>
    /\ freshAtCheck = FALSE
    /\ markerAtStart = marker
    /\ registry = [exists |-> FALSE, content |-> <<>>]
    /\ added = <<>>
    /\ prevInstall = -1

NextSetup ==
    \/ EnsureServers
    \/ CheckMarker
    \/ CheckClaude
    \/ Context7
    \/ Serena
    \/ Beads
    \/ BeadsUi
    \/ AgentMail
    \/ Claudeman
    \/ Summary
    \/ NextSession

SpecSetup == InitSetup /\ [][NextSetup]_vars

-----------------------------------------------------------------------------
(* The registration of a project in the atlas registry (scripts/init.py) *)

\* the user's home directory (line 25) and the project directories a
\* registration may run in (CWD, line 26)
HOME == <<"/","h">>
Projects == {<<"/","h","/","a","/","a","p","p">>, <<"/","h","/","b","/","a","p","p">>, <<"/","h","/","c","/","A","p","p">>, <<"/","s","r","v","/","a","p","p","-","2">>, <<"/","h","/","d","/","m","y","_","a","p","p">>}

\* what git_remote_url(CWD) may return: no remote, or the origin's URL
NoRemote == <<>>
Remotes == {NoRemote, <<"g","i","t","@","x",":","a","p","p",".","g","i","t">>}

\* how many registrations a behaviour may hold
MaxProjects == 4

\* str.replace(old, new)
Replace(s, old, new) ==
    LET RECURSIVE Go(_)
        Go(t) == IF t = <<>> THEN <<>>
                 ELSE IF StartsWith(t, old) THEN new \o Go(From(t, Len(old)))
                 ELSE <<Head(t)>> \o Go(Tail(t))
    IN  Go(s)

\* sub in s
Contains(s, sub) == \E i \in 0..(Len(s) - Len(sub)) : SubSeq(s, i + 1, i + Len(sub)) = sub

\* os.path.basename of an absolute path without a trailing separator
Basename(path) == LET pieces == Split(path, "/") IN pieces[Len(pieces)]

SlugChars == Range(LowerCase) \cup {"0", "1", "2", "3", "4", "5", "6", "7", "8", "9"}

\* re.sub(r"[^a-z0-9]+", "-", s)
Dashed(s) ==
    LET RECURSIVE Go(_, _)
        Go(t, inRun) == IF t = <<>> THEN <<>>
                        ELSE IF Head(t) \in SlugChars THEN <<Head(t)>> \o Go(Tail(t), FALSE)
                        ELSE IF inRun THEN Go(Tail(t), TRUE)
                        ELSE <<"-">> \o Go(Tail(t), TRUE)
    IN  Go(s, FALSE)

\* str.strip("-")
StripDashes(s) ==
    LET RECURSIVE L(_)
        L(t) == IF t # <<>> /\ Head(t) = "-" THEN L(Tail(t)) ELSE t
        RECURSIVE R(_)
        R(t) == IF t # <<>> /\ t[Len(t)] = "-" THEN R(SubSeq(t, 1, Len(t) - 1)) ELSE t
    IN  R(L(s))

\* lines 30-33
slug_from_dirname(path) == StripDashes(Dashed(Lower(Basename(path))))

\* lines 115-121 on the content of an existing registry: some line starts
\* with two spaces, the slug and a colon
registry_has_slug(content, slug) ==
    \E line \in Range(Split(content, "\n")) : StartsWith(line, <<" "," ">> \o slug \o <<":">>)

\* lines 124-131 on the content of an existing registry
registry_has_path(content, path) ==
    Contains(content, Replace(path, HOME, <<"~">>)) \/ Contains(content, path)

\* lines 155-156
RegistryHeader == <<"#"," ","A","t","l","a","s"," ","p","r","o","j","e","c","t"," ","r","e","g","i","s","t","r","y">> \o <<"\n", "\n">> \o <<"p","r","o","j","e","c","t","s",":">> \o <<"\n">>

\* lines 203-207
RegistryEntry(slug, cwd, remote) ==
    <<" "," ">> \o slug \o <<":">> \o <<"\n">> \o <<" "," "," "," ","p","a","t","h",":"," ">> \o Replace(cwd, HOME, <<"~">>) \o <<"\n">>
        \o (IF remote # NoRemote THEN <<" "," "," "," ","r","e","p","o",":"," ">> \o remote \o <<"\n">> ELSE <<>>)

\* lines 137-210: one run of init_atlas in directory cwd
init_atlas ==
    /\ Len(added) < MaxProjects
    /\ \E cwd \in Projects, remote \in Remotes, plugin \in BOOLEAN :
          IF ~plugin THEN UNCHANGED <<registry, added>>
          ELSE LET content == IF registry.exists THEN registry.content ELSE RegistryHeader
                   dirslug == slug_from_dirname(cwd)
                   slug    == IF registry_has_slug(content, dirslug)
                              THEN dirslug \o <<"-","2">> ELSE dirslug
               IN  IF registry_has_path(content, cwd)
                   THEN /\ registry' = [exists |-> TRUE, content |-> content]
                        /\ added' = added
                   ELSE /\ registry' = [exists |-> TRUE,
                                        content |-> content \o RegistryEntry(slug, cwd, remote)]
                        /\ added' = Append(added, <<cwd, slug>>)
    /\ UNCHANGED <<hookVars, now, marker, spc, installed, missing, steps, freshAtCheck,
                   markerAtStart, prevInstall>>

InitAtlas ==
    /\ HookOff
    /\ now = 0
    /\ marker = [exists |-> FALSE, mtime |-> 0]
    /\ spc = "start"
    /\ installed = <<>> /\ missing = <<>> /\ steps = <<>>
    /\ freshAtCheck = FALSE
    /\ markerAtStart = marker
    /\ prevInstall = -1
    /\ registry \in {[exists |-> FALSE, content |-> <<>>],
                     [exists |-> TRUE, content |-> RegistryHeader]}
    /\ added = <<>>

NextAtlas == init_atlas

SpecAtlas == InitAtlas /\ [][NextAtlas]_vars
-----------------------------------------------------------------------------
(* Properties *)

\* the invocation has ended
Done == pc = "done"

\* a variable of the environment holds one of the truthy words
VarTruthy(v) == v.set /\ Lower(Strip(v.s)) \in TruthyWords

\* the gate value the hook computed passes the test of line 24
GateEnabled == Lower(Strip(GATE)) \in TruthyWords

BypassSet == VarTruthy(env.AGENT_MAIL_BYPASS)

IdentityMissing == ~env.AGENT_NAME.set \/ env.AGENT_NAME.s = <<>>

AdvisoryMode ==
    /\ env.AGENT_MAIL_GUARD_MODE.set
    /\ Lower(Strip(env.AGENT_MAIL_GUARD_MODE.s)) \in AdvisoryWords

\* C1: every invocation ends with exit status 0 or 1, and the status is 1
\* exactly when the gate is enabled, the bypass is not active, and either
\* the agent identity is missing or the conflict list is non-empty in
\* blocking mode.
C1_ExitStatus ==
    Done =>
        /\ exit_status \in {0, 1}
        /\ exit_status = 1 <=>
              /\ GateEnabled
              /\ ~BypassSet
              /\ IdentityMissing \/ (conflicts # <<>> /\ ~AdvisoryMode)

\* C1 witness: a blocked commit (conflicts, blocking mode) and nothing else wrong
C1_Witness ==
    Done /\ exit_status = 1 /\ conflicts # <<>> /\ ~IdentityMissing /\ ~AdvisoryMode

\* C2: the guard is enabled whenever at least one of WORKTREES_ENABLED and
\* GIT_IDENTITY_ENABLED is truthy, whatever the other one holds, and is a
\* no-op only when neither is.
C2_EitherVariableEnables ==
    pc # "gate" =>
        (GateEnabled <=>
            VarTruthy(env.WORKTREES_ENABLED) \/ VarTruthy(env.GIT_IDENTITY_ENABLED))

\* C3: with the gate disabled the guard is a complete no-op (exit 0, nothing
\* written, neither the staging area nor the store read), whatever the
\* bypass, the mode, the identity, the staged paths and the store are.
C3_DisabledGateNoOp ==
    (pc # "gate" /\ ~GateEnabled) =>
        /\ Done
        /\ exit_status = 0
        /\ stderr = <<>>
        /\ ~stagingRead
        /\ ~storeRead

\* C3 witness: a disabled gate with the bypass set, no identity, staged paths
\* and a store with a blocking record
C3_Witness ==
    /\ Done /\ ~GateEnabled
    /\ BypassSet /\ IdentityMissing
    /\ git = GitModified /\ store = Listable(<<DocD>>)

\* C4: with the gate enabled and the bypass truthy the guard exits 0 after
\* writing exactly the one notice line, before the staging area or the
\* store is read, whatever the identity, the mode, the staged paths and the
\* store are.
C4_BypassShortCircuits ==
    (pc \notin {"gate", "mode", "bypass"} /\ GateEnabled /\ BypassSet) =>
        /\ Done
        /\ exit_status = 0
        /\ stderr = <<BypassNotice>>
        /\ ~stagingRead
        /\ ~storeRead

\* C4 witness: the bypass taken with no identity, over staged paths and a
\* store with a blocking record
C4_Witness ==
    /\ Done /\ GateEnabled /\ BypassSet /\ IdentityMissing
    /\ git = GitModified /\ store = Listable(<<DocD>>)

\* two invocations with the bypass truthy that differ in the gate variables
\* alone, one with the gate enabled and one with it disabled
PrevGateEnabled == Lower(Strip(prev.GATE)) \in TruthyWords

BypassedPair ==
    /\ prev.ran /\ Done
    /\ BypassSet
    /\ env.AGENT_MAIL_GUARD_MODE = prev.env.AGENT_MAIL_GUARD_MODE
    /\ GateEnabled # PrevGateEnabled

\* C5 as stated: two invocations with the bypass truthy that differ only in
\* the gate variables (enabled, disabled) have the same outcome, exit 0 and
\* the one-line bypass notice.
C5_BypassIgnoresGate ==
    BypassedPair =>
        /\ exit_status = 0 /\ prev.exit_status = 0
        /\ stderr = <<BypassNotice>> /\ prev.stderr = <<BypassNotice>>

\* C5 amended: both invocations exit 0; the one with the gate enabled writes
\* exactly the bypass notice, the one with the gate disabled writes nothing.
C5_BypassBehindGate ==
    BypassedPair =>
        /\ exit_status = 0 /\ prev.exit_status = 0
        /\ stderr = (IF GateEnabled THEN <<BypassNotice>> ELSE <<>>)
        /\ prev.stderr = (IF PrevGateEnabled THEN <<BypassNotice>> ELSE <<>>)

\* C5 witness: the first invocation bypassed with the gate enabled, the
\* second ran with the gate disabled
C5_Witness == BypassedPair /\ PrevGateEnabled /\ ~GateEnabled

\* C6: with the gate enabled, the bypass not active and AGENT_NAME unset or
\* empty, the guard writes the missing-identity error and exits 1 before the
\* staging area or the store is read.
C6_MissingIdentityFatal ==
    (pc \notin {"gate", "mode", "bypass", "agent"} /\ GateEnabled /\ ~BypassSet
        /\ IdentityMissing) =>
        /\ Done
        /\ exit_status = 1
        /\ stderr = <<MissingAgentError>>
        /\ ~stagingRead
        /\ ~storeRead

\* C6 witness: AGENT_NAME set to the empty text, the gate enabled, over
\* staged paths and a store with a blocking record
C6_Witness ==
    /\ Done /\ GateEnabled /\ ~BypassSet
    /\ env.AGENT_NAME = Text(<<>>)
    /\ git = GitModified /\ store = Listable(<<DocD>>)

-----------------------------------------------------------------------------
(* Properties of the effective reservation set *)

\* the entries the loader enumerates: <<file, entry>> for every entry of
\* every .json file of the store that reads and parses, in directory order
Positions ==
    IF ~store.listable THEN {}
    ELSE UNION { {<<f, i>> : i \in DOMAIN store.files[f].items} :
                 f \in {g \in DOMAIN store.files :
                           /\ EndsWith(store.files[g].name, <<".","j","s","o","n">>)
                           /\ store.files[g].parses} }

RecordAt(o) == store.files[o[1]].items[o[2]]

Before(a, b) == a[1] < b[1] \/ (a[1] = b[1] /\ a[2] < b[2])

\* the loader has run to its end (lines 104-147 are behind)
LoaderFinished == storeRead /\ pc \in {"union", "match", "decide", "done"}

\* the clock reading when the loop body ran on an entry (the present one for
\* an entry the loop never reached)
ClockAt(o) ==
    IF \E k \in DOMAIN examined : examined[k].file = o[1] /\ examined[k].rec = o[2]
    THEN examined[CHOOSE k \in DOMAIN examined :
                      examined[k].file = o[1] /\ examined[k].rec = o[2]].clock
    ELSE now

\* the text of a field: its stripped value when it is a text, else empty
FieldText(v) == IF v.k = "str" THEN Strip(v.s) ELSE <<>>

HasVirtualPrefix(r) ==
    \E pfx \in {<<"t","o","o","l",":","/","/">>, <<"r","e","s","o","u","r","c","e",":","/","/">>, <<"s","e","r","v","i","c","e",":","/","/">>} :
        StartsWith(FieldText(r.path_pattern), pfx)

\* an ISO 8601 timestamp: what the guard's parser reads, and the ordinal
\* date form YYYY-DDD[THH:MM[:SS][offset]] besides
OrdinalInstant(text) ==
    IF /\ Len(text) >= 8
       /\ AllDigits(SubSeq(text, 1, 4)) /\ text[5] = "-" /\ AllDigits(SubSeq(text, 6, 8))
       /\ Len(text) # 9
       /\ (Len(text) > 9 => text[9] = "T")
    THEN LET y == Number(SubSeq(text, 1, 4))
             n == Number(SubSeq(text, 6, 8))
             tod == IF Len(text) = 8 THEN Time(0) ELSE TimeOfDay(From(text, 9))
         IN  IF y >= 1 /\ n >= 1 /\ n <= (IF IsLeap(y) THEN 366 ELSE 365) /\ tod.ok
             THEN Time((EpochDay(y, 1, 1) + n - 1) * 86400 + tod.t) ELSE NoTime
    ELSE NoTime

IsoInstant(text) ==
    LET t == IF EndsWith(text, <<"Z">>) THEN SubSeq(text, 1, Len(text) - 1) \o <<"+","0","0",":","0","0">> ELSE text
    IN  IF FromIsoFormat(t).ok THEN FromIsoFormat(t) ELSE OrdinalInstant(t)

\* the entry is a record and no record enumerated before it has its id
FirstWithId(o) ==
    /\ RecordAt(o).mapping
    /\ \/ RecordAt(o).id.k \in {"absent", "null"}
       \/ \A p \in Positions :
             (Before(p, o) /\ RecordAt(p).mapping /\ RecordAt(p).id.k \notin {"absent", "null"})
                 => PyStr(RecordAt(p).id) # PyStr(RecordAt(o).id)

\* C7: after the loader runs, the effective set is exactly the set
\* of store records with exclusive true, an agent other than the current one,
\* expires_ts unset or later than now, and no virtual-namespace prefix.
C7_EffectiveSetExact ==
    LoaderFinished =>
        Range(origins) =
            {o \in Positions :
                LET r == RecordAt(o) IN
                /\ r.mapping
                /\ r.exclusive = Bool(TRUE)
                /\ r.agent # Str(AGENT_NAME.s)
                /\ \/ r.expires_ts.k \in {"absent", "null"}
                   \/ r.expires_ts = Str(<<>>)
                   \/ /\ r.expires_ts.k = "str"
                      /\ IsoInstant(Strip(r.expires_ts.s)).ok
                      /\ IsoInstant(Strip(r.expires_ts.s)).t > ClockAt(o)
                /\ ~HasVirtualPrefix(r)}

\* every entry of the store is a record with exclusive == false
OnlyShared ==
    /\ store.listable /\ store.files # <<>>
    /\ \A f \in DOMAIN store.files :
          /\ EndsWith(store.files[f].name, <<".","j","s","o","n">>) /\ store.files[f].parses
          /\ \A i \in DOMAIN store.files[f].items :
                /\ store.files[f].items[i].mapping
                /\ store.files[f].items[i].exclusive = Bool(FALSE)

\* C8: a record with exclusive == false never enters the effective set,
\* whatever its holder, expiry and pattern; conflicts come from the tuples of
\* the effective set alone, so none is attributed to it; and a store of
\* shared reservations only ends in exit 0 with nothing written.
C8_SharedNeverBlocks ==
    /\ \A k \in DOMAIN origins : RecordAt(origins[k]).exclusive # Bool(FALSE)
    /\ \A c \in DOMAIN conflicts :
          \E k \in DOMAIN compiled_patterns :
              /\ compiled_patterns[k].patt = conflicts[c].patt
              /\ compiled_patterns[k].holder = conflicts[c].holder
    /\ (Done /\ storeRead /\ OnlyShared) =>
          (exit_status = 0 /\ stderr = <<>> /\ conflicts = <<>>)

\* C8 witness: two shared records of different holders, patterns and expiry
\* that match the staged paths, read to the end
C8_Witness ==
    /\ Done /\ storeRead /\ OnlyShared
    /\ Len(store.files) = 2
    /\ store.files[1].items = <<RecShared>>
    /\ store.files[2].items = <<RecSharedExpiring>>
    /\ Len(examined) = 2

\* C9: a record whose agent field is the same text as AGENT_NAME never
\* enters the effective set, for every value of AGENT_NAME.
C9_OwnNeverEffective ==
    \A k \in DOMAIN origins : RecordAt(origins[k]).agent # Str(AGENT_NAME.s)

\* C10: a record whose expires_ts is a timestamp strictly before now never
\* enters the effective set, and a record whose expires_ts is unset, empty or
\* no valid ISO 8601 timestamp is in the effective set when it passes the
\* other checks (first with its id, a pattern neither empty nor virtual,
\* exclusive, another agent's).
C10_ExpiryFilter ==
    LoaderFinished =>
        \A o \in Positions :
            LET r == RecordAt(o)
                unset == r.expires_ts.k \in {"absent", "null"} \/ r.expires_ts = Str(<<>>)
                stamp == IF r.expires_ts.k = "str" THEN IsoInstant(Strip(r.expires_ts.s))
                         ELSE NoTime
            IN  r.mapping =>
                /\ (stamp.ok /\ stamp.t < ClockAt(o)) => o \notin Range(origins)
                /\ ( /\ unset \/ ~stamp.ok
                     /\ FirstWithId(o)
                     /\ FieldText(r.path_pattern) # <<>> /\ ~HasVirtualPrefix(r)
                     /\ r.exclusive.k = "absent" \/ PyTruthy(r.exclusive)
                     /\ FieldText(r.agent) # AGENT_NAME.s )
                   => o \in Range(origins)

-----------------------------------------------------------------------------
(* Properties of the matcher and of the report *)

\* the record's path_pattern is a text that begins with a virtual prefix
BeginsVirtual(r) ==
    /\ r.mapping
    /\ r.path_pattern.k = "str"
    /\ \E pfx \in {<<"t","o","o","l",":","/","/">>, <<"r","e","s","o","u","r","c","e",":","/","/">>, <<"s","e","r","v","i","c","e",":","/","/">>} :
          StartsWith(Strip(r.path_pattern.s), pfx)

HasPrefixIn(text) ==
    \E pfx \in {<<"t","o","o","l",":","/","/">>, <<"r","e","s","o","u","r","c","e",":","/","/">>, <<"s","e","r","v","i","c","e",":","/","/">>} : StartsWith(text, pfx)

\* C11: a record whose path_pattern begins with tool://, resource:// or
\* service:// is never compiled, never added to the union matcher and never
\* produces a conflict, even when it is exclusive, unexpired and another
\* agent's: no tuple of the effective set comes from such a record, the
\* union matcher is built from the patterns of those tuples alone, and every
\* conflict carries the pattern and holder of one of those tuples, never a
\* pattern with a virtual prefix.
C11_VirtualNeverMatched ==
    /\ \A k \in DOMAIN origins : ~BeginsVirtual(RecordAt(origins[k]))
    /\ Len(compiled_patterns) = Len(origins)
    /\ Len(all_pattern_strings) = Len(origins)
    /\ \A k \in DOMAIN compiled_patterns :
          /\ ~HasPrefixIn(compiled_patterns[k].patt)
          /\ all_pattern_strings[k] = compiled_patterns[k].patt_norm
    /\ union_spec.built => union_spec.lines = all_pattern_strings
    /\ \A c \in DOMAIN conflicts :
          /\ ~HasPrefixIn(conflicts[c].patt)
          /\ \E k \in DOMAIN compiled_patterns :
                /\ compiled_patterns[k].patt = conflicts[c].patt
                /\ compiled_patterns[k].holder = conflicts[c].holder

\* C11 witness: an exclusive, unexpired record of another agent with the
\* pattern tool://build was examined while a path that normalises to
\* tool://build was staged, and the run ended with conflicts from another
\* record only
C11_Witness ==
    /\ Done /\ conflicts # <<>>
    /\ git = GitOdd
    /\ \E k \in DOMAIN examined :
          /\ examined[k].verdict = "virtual"
          /\ RecordAt(<<examined[k].file, examined[k].rec>>) = RecVirtual

\* the matching of lines 158-169 is behind
MatchingDone == storeRead /\ pc \in {"decide", "done"}

\* the effective patterns that match a staged path, by the matcher of line 167
MatchingPatterns(p) ==
    {k \in DOMAIN compiled_patterns :
        IF compiled_patterns[k].spec.built
        THEN MatchFile(compiled_patterns[k].spec.lines, Normalized(p))
        ELSE FnMatch(Normalized(p), compiled_patterns[k].patt_norm)}

ConflictsOf(p) == {c \in DOMAIN conflicts : conflicts[c].path = p}

\* C12: each distinct staged path is matched once: the number of conflicts
\* reported for a staged path is the number of effective patterns that match
\* it, however often the two staging queries list the path; a commit of one
\* modified file that matches one effective reservation reports one conflict
\* and ends with status 1.
C12_EachPathMatchedOnce ==
    MatchingDone =>
        /\ \A p \in Range(paths) :
              Cardinality(ConflictsOf(p)) = Cardinality(MatchingPatterns(p))
        /\ (Done /\ git = GitReadme /\ Len(compiled_patterns) = 1
                 /\ MatchingPatterns(ReadmeMd) # {})
              => (Len(conflicts) = 1 /\ exit_status = 1)

\* an entry of `paths` survives the union fast path of line 163
Survives(i) ==
    ~union_spec.built \/ MatchFile(union_spec.lines, Normalized(paths[i]))

\* the <<path entry, effective tuple>> pairs that match, and their place in
\* the order of the path entries first and of the tuples second
Hits ==
    {h \in (DOMAIN paths) \X (DOMAIN compiled_patterns) :
        Survives(h[1]) /\ h[2] \in MatchingPatterns(paths[h[1]])}

Rank(h) == Cardinality({g \in Hits : g[1] < h[1] \/ (g[1] = h[1] /\ g[2] <= h[2])})

\* C13: for every entry of the candidate paths that survives the union fast
\* path every effective pattern is tested, and each one that matches yields
\* one conflict, so an entry matched by k effective reservations yields k
\* conflicts; the conflict carries the pattern as the record holds it (not
\* normalised), the path as staged (not normalised) and the record's
\* holder, and the conflicts stand in the order of the path entries and,
\* for one entry, in the insertion order of the effective set.
C13_ConflictPerMatch ==
    MatchingDone =>
        /\ Len(conflicts) = Cardinality(Hits)
        /\ \A h \in Hits :
              /\ conflicts[Rank(h)].path = paths[h[1]]
              /\ conflicts[Rank(h)].patt = Strip(RecordAt(origins[h[2]]).path_pattern.s)
              /\ conflicts[Rank(h)].holder = FieldText(RecordAt(origins[h[2]]).agent)

\* C13 witness: a staged path with a backslash matched by two reservations,
\* one of them with a leading slash in its pattern
C13_Witness ==
    /\ MatchingDone
    /\ \E i \in DOMAIN paths :
          /\ paths[i] # Normalized(paths[i])
          /\ Cardinality(MatchingPatterns(paths[i])) = 2
    /\ \E c \in DOMAIN conflicts :
          /\ conflicts[c].path # Normalized(conflicts[c].path)
          /\ conflicts[c].patt # Normalized(conflicts[c].patt)

\* C14: every conflict is sound: its path is an entry of the candidate
\* paths, its pattern and holder are those of one tuple of the effective
\* set, which comes from a record of the store, and that tuple's pattern
\* matches the normalised path.
C14_ConflictsSound ==
    \A c \in DOMAIN conflicts :
        /\ \E i \in DOMAIN paths : paths[i] = conflicts[c].path
        /\ \E k \in MatchingPatterns(conflicts[c].path) :
              /\ compiled_patterns[k].patt = conflicts[c].patt
              /\ compiled_patterns[k].holder = conflicts[c].holder
              /\ origins[k] \in Positions
              /\ Strip(RecordAt(origins[k]).path_pattern.s) = conflicts[c].patt

\* C14 witness: conflicts were found while a staged path matches no pattern
\* and an effective pattern matches no staged path
C14_Witness ==
    /\ MatchingDone /\ conflicts # <<>>
    /\ \E i \in DOMAIN paths : MatchingPatterns(paths[i]) = {}
    /\ \E k \in DOMAIN compiled_patterns :
          \A i \in DOMAIN paths : k \notin MatchingPatterns(paths[i])

\* the clock readings of this invocation
Clocks == [k \in DOMAIN examined |-> examined[k].clock]

PrevAdvisoryMode ==
    /\ prev.env.AGENT_MAIL_GUARD_MODE.set
    /\ Lower(Strip(prev.env.AGENT_MAIL_GUARD_MODE.s)) \in AdvisoryWords

\* two invocations over the same store, staged paths, agent and clock, one
\* in advisory and one in blocking mode
ModePair ==
    /\ prev.ran /\ Done
    /\ [env EXCEPT !.AGENT_MAIL_GUARD_MODE = Unset]
          = [prev.env EXCEPT !.AGENT_MAIL_GUARD_MODE = Unset]
    /\ store = prev.store
    /\ Clocks = prev.clocks
    /\ AdvisoryMode # PrevAdvisoryMode

\* C15: for the same store, staged paths, agent and clock the text written
\* to the error stream in advisory mode is the text written in blocking
\* mode; the exit status differs only when there are conflicts, 0 in
\* advisory mode and 1 in blocking mode.
C15_AdvisorySameText ==
    ModePair =>
        /\ stderr = prev.stderr
        /\ conflicts = prev.conflicts
        /\ IF conflicts # <<>>
           THEN /\ exit_status = (IF AdvisoryMode THEN 0 ELSE 1)
                /\ prev.exit_status = (IF PrevAdvisoryMode THEN 0 ELSE 1)
           ELSE exit_status = prev.exit_status

\* C15 witness: Scenario D followed by Scenario E
C15_Witness ==
    /\ ModePair /\ AdvisoryMode
    /\ store = Listable(<<DocD>>) /\ git = GitModified
    /\ conflicts # <<>> /\ stderr # <<>>
    /\ exit_status = 0 /\ prev.exit_status = 1

\* the smaller of two numbers
Least(a, b) == IF a < b THEN a ELSE b

\* C16: the diagnostic output is determined by the conflict list alone:
\* nothing is written without conflicts; with n >= 1 conflicts the output is
\* the summary header and then min(n, 10) lines, one for each of the first
\* min(n, 10) conflicts in order; the exit status is 1 exactly when n > 0 in
\* blocking mode, also when more than 10 conflicts were found.
C16_ReportFromConflicts ==
    Done =>
        LET n == Len(conflicts) IN
        /\ n = 0 => stderr = <<>>
        /\ n >= 1 =>
              /\ Len(stderr) = 1 + Least(n, 10)
              /\ stderr[1].text = "Exclusive file_reservation conflicts detected\n"
              /\ \A i \in 1..Least(n, 10) :
                    /\ stderr[i + 1].text = "- {path} matches {patt} (holder: {holder})\n"
                    /\ stderr[i + 1].path = conflicts[i].path
                    /\ stderr[i + 1].patt = conflicts[i].patt
                    /\ stderr[i + 1].holder = conflicts[i].holder
        /\ exit_status = (IF n > 0 /\ ~AdvisoryMode THEN 1 ELSE 0)

\* C16 witness: 15 conflicts in blocking mode, 10 of them listed, status 1
C16_Witness ==
    Done /\ Len(conflicts) = 15 /\ ~AdvisoryMode /\ Len(stderr) = 11 /\ exit_status = 1

\* two invocations in succession in the same environment over the same
\* staged paths, with the same clock readings
SamePair ==
    /\ prev.ran /\ Done
    /\ env = prev.env
    /\ Clocks = prev.clocks

\* the store holds the documents it held for the first invocation, listed
\* in some order
SameDocuments ==
    /\ store.listable = prev.store.listable
    /\ Len(store.files) = Len(prev.store.files)
    /\ \E f \in [DOMAIN store.files -> DOMAIN store.files] :
          /\ \A i, j \in DOMAIN store.files : f[i] = f[j] => i = j
          /\ \A i \in DOMAIN store.files : store.files[i] = prev.store.files[f[i]]

C18_StoreUntouched == [][store' = store]_vars

\* C18 witness: the loader came upon an expired record and ran to the end;
\* the record is still in the store
C18_Witness ==
    /\ Done /\ storeRead
    /\ \E k \in DOMAIN examined :
          /\ examined[k].verdict = "expired"
          /\ <<examined[k].file, examined[k].rec>> \in Positions

\* the store of this invocation is the store of the one before it with one
\* document added that does not read or parse
CorruptAdded ==
    /\ store.listable /\ prev.store.listable
    /\ \E j \in DOMAIN store.files :
          /\ IsJsonName(store.files[j].name)
          /\ ~store.files[j].parses
          /\ RemoveAt(store.files, j) = prev.store.files

\* C19: a store document that cannot be read or parsed is skipped without
\* aborting the guard and the records of every other document still take
\* effect: no record is taken from such a document, and an invocation over
\* a store with a corrupt document added ends with the conflict list, the
\* diagnostics and the exit status of the invocation without it.
C19_CorruptDocSkipped ==
    /\ \A k \in DOMAIN examined : store.files[examined[k].file].parses
    /\ (prev.ran /\ Done /\ CorruptAdded /\ env = prev.env /\ Clocks = prev.clocks)
          => /\ conflicts = prev.conflicts
             /\ exit_status = prev.exit_status
             /\ stderr = prev.stderr

\* C19 witness: a corrupt document was added ahead of a document whose
\* record blocks the commit, and the commit is still blocked
C19_Witness ==
    /\ prev.ran /\ Done /\ CorruptAdded /\ env = prev.env /\ Clocks = prev.clocks
    /\ ~store.files[1].parses
    /\ Len(store.files) > 1
    /\ conflicts # <<>>
    /\ exit_status = 1

\* an entry that is no mapping, or a mapping whose path_pattern, agent or
\* expires_ts is a number or a boolean
Malformed(r) ==
    \/ ~r.mapping
    \/ r.path_pattern.k \in {"num", "bool"}
    \/ r.agent.k \in {"num", "bool"}
    \/ r.expires_ts.k \in {"num", "bool"}

\* the store of this invocation is the store of the one before it with one
\* malformed record added, in a document of its own or in one of the
\* documents
MalformedAdded ==
    /\ store.listable /\ prev.store.listable
    /\ \/ \E j \in DOMAIN store.files :
             /\ store.files[j].parses
             /\ Len(store.files[j].items) = 1
             /\ Malformed(store.files[j].items[1])
             /\ RemoveAt(store.files, j) = prev.store.files
       \/ \E f \in DOMAIN store.files :
             /\ store.files[f].parses
             /\ \E i \in DOMAIN store.files[f].items :
                   /\ Malformed(store.files[f].items[i])
                   /\ [store EXCEPT !.files[f].items = RemoveAt(@, i)] = prev.store

\* C20: a malformed record is skipped alone: every well-formed record still
\* enters the effective set if it passes the filters, so an invocation over
\* a store with a malformed record added, at the same clock reading, reports
\* every conflict of the invocation without it.
C20_MalformedSkippedAlone ==
    (/\ prev.ran /\ Done /\ MalformedAdded
     /\ env = prev.env
     /\ Cardinality(Range(Clocks) \cup Range(prev.clocks)) <= 1)
        => \A c \in Range(prev.conflicts) : c \in Range(conflicts)


-----------------------------------------------------------------------------
(* Claims C21 to C30 *)

\* the entries of a name-status listing as git wrote them, from its fields:
\* a status, then two paths after an R status and one after any other
RECURSIVE StagedEntries(_)
StagedEntries(fields) ==
    IF Len(fields) < 2 THEN <<>>
    ELSE IF Head(fields)[1] = "R" /\ Len(fields) >= 3
         THEN <<[status |-> fields[1], from |-> <<fields[2]>>, path |-> fields[3]] >>
                 \o StagedEntries(From(fields, 3))
         ELSE << [status |-> fields[1], from |-> <<>>, path |-> fields[2]] >>
                 \o StagedEntries(From(fields, 2))

\* the fields of the name-status output: every field ends with a NUL
StatusFields == LET pieces == Split(git.nameStatus, NUL)
                IN  SubSeq(pieces, 1, Len(pieces) - 1)

\* the paths of the entries, each rename's old path before its new one
RECURSIVE EntryPaths(_)
EntryPaths(es) ==
    IF es = <<>> THEN <<>>
    ELSE Head(es).from \o <<Head(es).path>> \o EntryPaths(Tail(es))

\* C21: for every staged rename both the old and the new path are candidate
\* paths, and the name-status parser stays aligned: the paths it appends are
\* the paths of the listing's entries, in order, no status among them.
C21_RenameBothSides ==
    (stagingRead /\ git.fail = "none") =>
        /\ \A e \in Range(StagedEntries(StatusFields)) :
              e.from # <<>> =>
                 /\ Decode(e.from[1]) = <<>> \/ Decode(e.from[1]) \in Range(paths)
                 /\ Decode(e.path) = <<>> \/ Decode(e.path) \in Range(paths)
        /\ \E k \in 0..Len(paths) :
              From(paths, k) = NonEmpty([i \in DOMAIN EntryPaths(StagedEntries(StatusFields))
                                            |-> Decode(EntryPaths(StagedEntries(StatusFields))[i])])

\* the record at o carries an id, as line 120 tests it
CarriesId(o) == RecordAt(o).mapping /\ RecordAt(o).id.k \notin {"absent", "null"}

\* C22: records sharing an id are collapsed to the first one seen: no two
\* tuples of the effective set come from records with the same id, a tuple
\* of a record with an id comes from the first enumerated record carrying
\* that id, and a record without an id is never dropped as a duplicate.
C22_FirstSeenPerId ==
    /\ \A i, j \in DOMAIN origins :
          (/\ CarriesId(origins[i]) /\ CarriesId(origins[j])
           /\ PyStr(RecordAt(origins[i]).id) = PyStr(RecordAt(origins[j]).id)) => i = j
    /\ \A i \in DOMAIN origins : FirstWithId(origins[i])
    /\ \A k \in DOMAIN examined :
          examined[k].verdict = "duplicate" =>
             /\ CarriesId(<<examined[k].file, examined[k].rec>>)
             /\ ~FirstWithId(<<examined[k].file, examined[k].rec>>)

\* C22 witness: the loader kept the first record of an id and dropped the
\* second, which passes every filter, and the commit is blocked by the first
C22_Witness ==
    /\ Done /\ exit_status = 1
    /\ \E k \in DOMAIN examined :
          /\ examined[k].verdict = "duplicate"
          /\ Verdict(RecordAt(<<examined[k].file, examined[k].rec>>), {}, AGENT_NAME.s, now) = "keep"
          /\ \E i \in DOMAIN origins :
                PyStr(RecordAt(origins[i]).id) = PyStr(RecordAt(<<examined[k].file, examined[k].rec>>).id)

\* C23: the filters come before the de-duplication by id: a record that
\* passes the four filters is dropped as a duplicate only if an earlier
\* record with its id was kept in the effective set; an earlier record that
\* was filtered out does not shadow it.
C23_FiltersBeforeDedupe ==
    (\A k \in DOMAIN examined : examined[k].verdict # "raise") =>
        \A k \in DOMAIN examined :
            LET o == <<examined[k].file, examined[k].rec>> IN
            (/\ examined[k].verdict = "duplicate"
             /\ Verdict(RecordAt(o), {}, AGENT_NAME.s, examined[k].clock) = "keep")
                => \E i \in DOMAIN origins :
                      /\ Before(origins[i], o)
                      /\ CarriesId(origins[i])
                      /\ PyStr(RecordAt(origins[i]).id) = PyStr(RecordAt(o).id)

\* C24: the union fast path is only an optimisation: the conflict list is
\* the list that the detailed matching of every candidate path against
\* every effective pattern gives, without the union matcher.
C24_UnionOnlyOptimizes ==
    MatchingDone => conflicts = FindConflicts(paths, compiled_patterns, NoSpec)

\* the entries the loader enumerates in a store s, in order
RECURSIVE EntriesOf(_)
EntriesOf(files) ==
    IF files = <<>> THEN <<>>
    ELSE (IF IsJsonName(Head(files).name) /\ Head(files).parses THEN Head(files).items ELSE <<>>)
         \o EntriesOf(Tail(files))

\* what the loader makes of the entries rs one after the other, from the
\* ids `seen`, at one clock reading: the tuples kept, or a raised exception
RECURSIVE Loaded(_, _, _)
Loaded(rs, seen, clock) ==
    IF rs = <<>> THEN [raised |-> FALSE, out |-> <<>>]
    ELSE LET v    == Verdict(Head(rs), seen, AGENT_NAME.s, clock)
             rest == Loaded(Tail(rs), IF v = "duplicate" THEN seen ELSE SeenAfter(Head(rs), seen),
                            clock)
         IN  IF v = "raise" \/ rest.raised THEN [raised |-> TRUE, out |-> <<>>]
             ELSE [raised |-> FALSE,
                   out |-> (IF v = "keep" THEN <<Compiled(Head(rs), psAvailable)>> ELSE <<>>)
                              \o rest.out]

\* the effective set of the store s as it stands, at one clock reading
EffectiveOf(s, clock) ==
    IF s.listable THEN Loaded(EntriesOf(s.files), {}, clock).out ELSE <<>>

\* C25: when the reservation system rewrites documents while the guard
\* enumerates the store, the effective set the guard computes is the
\* effective set of the store as it stood at one instant of the invocation.
C25_PointInTimeSnapshot ==
    (LoaderFinished /\ \A k \in DOMAIN examined : examined[k].clock = now) =>
        \E s \in storeSeen : Range(compiled_patterns) = Range(EffectiveOf(s, now))

\* the ids the loader has seen when it comes to the entry at o
SeenBefore(o) ==
    {PyStr(RecordAt(p).id) : p \in {q \in Positions : Before(q, o) /\ CarriesId(q)}}

\* C28: a record without an exclusive field is treated as exclusive: the
\* loader does with it what it does with the same record with exclusive
\* true, never drops it as shared, and when it keeps it the record is in the
\* effective set and blocks a staged path it matches.
C28_AbsentExclusiveBlocks ==
    \A k \in DOMAIN examined :
        LET o == <<examined[k].file, examined[k].rec>>
            r == RecordAt(o)
        IN  (r.mapping /\ r.exclusive.k = "absent") =>
               /\ examined[k].verdict # "shared"
               /\ examined[k].verdict =
                     Verdict([r EXCEPT !.exclusive = Bool(TRUE)], SeenBefore(o), AGENT_NAME.s,
                             examined[k].clock)
               /\ (Done /\ examined[k].verdict = "keep"
                        /\ \A j \in DOMAIN examined : examined[j].verdict # "raise")
                     => /\ o \in Range(origins)
                        /\ (\E i \in DOMAIN paths :
                               Matched(Compiled(r, psAvailable), Normalized(paths[i])))
                              => (conflicts # <<>> /\ exit_status = IF ADVISORY THEN 0 ELSE 1)

\* C28 witness: a record without an exclusive field, held by carol, blocked
\* the commit
C28_Witness ==
    /\ Done /\ exit_status = 1
    /\ \E i \in DOMAIN origins :
          /\ RecordAt(origins[i]).exclusive.k = "absent"
          /\ \E c \in DOMAIN conflicts : conflicts[c].holder = Stripped(RecordAt(origins[i]).agent)

\* C29: the guard fails open on an empty candidate path set: once the
\* staging area has been queried (the gate is enabled, the bypass is off and
\* the identity is present) and no path came of it, also when a query
\* failed, the guard has exited with status 0, has written nothing and has
\* not read the reservation store, and it never does.
C29_EmptyPathsFailOpen ==
    (stagingRead /\ paths = <<>>) =>
        /\ Done
        /\ exit_status = 0
        /\ stderr = <<>>
        /\ ~storeRead
        /\ fileIdx = 0 /\ examined = <<>>

\* C29 witness: the first staging query failed over a store that holds
\* documents, and the guard is done
C29_Witness ==
    /\ Done /\ stagingRead /\ paths = <<>>
    /\ git.fail = "name-only"
    /\ GateOpen(GATE) /\ ~BypassActive(env) /\ ~AgentMissing(AGENT_NAME)
    /\ store.listable /\ store.files # <<>>


\* the per-run half of C26: install steps are performed and the marker is
\* rewritten only in a run that found the marker absent or at least
\* MAX_AGE_DAYS old, and a run that found it fresh does neither
C26_StepsOnlyWhenStale ==
    /\ (steps # <<>> \/ marker # markerAtStart) => ~marker_is_fresh(markerAtStart, now)
    /\ freshAtCheck => (steps = <<>> /\ marker = markerAtStart /\ spc = "done")

Tools == {"Context7", "Serena", "Beads", "beads-ui", "Agent Mail", "Claudeman"}

Occurrences(list, tool) == Cardinality({i \in DOMAIN list : list[i] = tool})

C30_OtherToolsInOneList ==
    spc = "summary" =>
        \A tool \in Tools \ {"Agent Mail"} :
            Occurrences(installed, tool) + Occurrences(missing, tool) = 1

\* the slugs of the entries of a registry, in file order: the lines that
\* carry a key at the two-space indent
RegistrySlugs(content) ==
    LET lines == Split(content, "\n")
        keys  == SelectSeq(lines, LAMBDA l : Len(l) > 3 /\ SubSeq(l, 1, 2) = <<" ", " ">>
                                              /\ l[3] # " " /\ l[Len(l)] = ":")
    IN  [i \in DOMAIN keys |-> SubSeq(keys[i], 3, Len(keys[i]) - 1)]

\* C27: after any sequence of registrations the registry holds no two
\* entries with the same slug, and no directory has been added twice.
C27_NoSlugCollision ==
    /\ \A i, j \in DOMAIN RegistrySlugs(registry.content) :
          i # j => RegistrySlugs(registry.content)[i] # RegistrySlugs(registry.content)[j]
    /\ \A i, j \in DOMAIN added : i # j => added[i][1] # added[j][1]

\* the second half of C27 alone: no directory is added a second time
C27_PathAddedOnce == \A i, j \in DOMAIN added : i # j => added[i][1] # added[j][1]
=============================================================================
